---------------------------- MODULE Spec2Model ----------------------------
(***************************************************************************)
(* Archive-container layer of the map parser: the ZIP variant              *)
(* (ZipReader / ZipArchive / ZipArchiveEntry / createDirectoryTree) and    *)
(* the ScsV1 container (ScsArchiveV1 / ScsArchiveEntryV1).                  *)
(*                                                                         *)
(* A file on disk is a sequence of bytes (0..255), generated from the      *)
(* description inp.  Strings decoded from a buffer are sequences of        *)
(* one-character strings.  One archive handle is modelled per behaviour;   *)
(* its operations are the actions.                                         *)
(***************************************************************************)
EXTENDS Integers, Sequences, FiniteSets, TLC

VARIABLES
    kind,          \* "zip" | "scs" | "index" | "listing": what the behaviour exercises
    inp,           \* the description the input was generated from (ghost)
    st,            \* "new" (before the constructor), "ready", "failed" (constructor threw)
    fdOpen,        \* the descriptor is open
    disposeCalled, \* dispose() has been called on the handle (ghost)
    offset,        \* ZipReader.__offset
    header,        \* ZipArchive.eocdRecord / ScsArchiveV1.header
    eocdOffset,    \* ZipArchive.endOfCentralDirOffset
    cdEntries,     \* the central-directory records parseEntries() scanned (names as indexed)
    entries,       \* the memoized Entries, or None
    ret,           \* outcome of the last call: [op, ok, value]
    reads,         \* number of fs.readSync calls made by the last call
    short,         \* the last call got fewer bytes from the file than it asked for
    codecCalls,    \* number of decompression-primitive calls made by the last call
    globalDirectoryTree, \* "let directoryTree" at module level of the adm-zip variant
    fdRefersTo     \* the file the handle's descriptor number refers to while open: "own" or "other"

vars == <<kind, inp, st, fdOpen, disposeCalled, offset, header, eocdOffset,
          cdEntries, entries, ret, reads, short, codecCalls,
          globalDirectoryTree,
          fdRefersTo>>

None == [none |-> TRUE]

(***************************************************************************)
(* Bounds of the model.                                                    *)
(***************************************************************************)
MaxDepth == 3      \* path segments of a generated entry name
MaxRecs == 2       \* central-directory records of a generated record list
TinyFile == 10     \* bytes of a file too short to hold an end record
MaxPayload == 5    \* characters of a generated directory listing

(***************************************************************************)
(* Sequences, bytes, little-endian integers.                               *)
(***************************************************************************)
Min(S) == CHOOSE x \in S : \A y \in S : x <= y

Max(S) == CHOOSE x \in S : \A y \in S : y <= x

Min2(a, b) == IF a < b THEN a ELSE b

RECURSIVE Concat(_)
Concat(ss) == IF ss = <<>> THEN <<>> ELSE Head(ss) \o Concat(Tail(ss))

Zeros(n) == [i \in 1..n |-> 0]

LE16(v) == <<v % 256, (v \div 256) % 256>>

LE32(v) == <<v % 256, (v \div 256) % 256, (v \div 65536) % 256, (v \div 16777216) % 256>>

\* Buffer.readUInt16LE(pos) / readUInt32LE(pos); pos is 0-based
readUInt16LE(buf, pos) == buf[pos + 1] + 256 * buf[pos + 2]

readUInt32LE(buf, pos) ==
    buf[pos + 1] + 256 * buf[pos + 2] + 65536 * buf[pos + 3] + 16777216 * buf[pos + 4]

\* Buffer.toString() of ASCII bytes, one character per byte
Chr(b) ==
    CASE b = 47 -> "/"
      [] b = 97 -> "a"
      [] b = 98 -> "b"
      [] b = 42 -> "*"
      [] b = 13 -> "CR"
      [] b = 10 -> "LF"
      [] b = 0 -> "NUL"
      [] OTHER -> "?"

Ord(c) ==
    CASE c = "/" -> 47
      [] c = "a" -> 97
      [] c = "b" -> 98
      [] c = "*" -> 42
      [] c = "CR" -> 13
      [] c = "LF" -> 10
      [] OTHER -> 63

toString(buf) == [i \in 1..Len(buf) |-> Chr(buf[i])]

Bytes(s) == [i \in 1..Len(s) |-> Ord(s[i])]

(***************************************************************************)
(* node's path.dirname and path.basename (posix).                          *)
(***************************************************************************)
\* basename: the last run of non-'/' characters, trailing '/' ignored
basename(p) ==
    LET nonSlash == {i \in 1..Len(p) : p[i] # "/"}
    IN  IF nonSlash = {} THEN <<>>
        ELSE LET end == Max(nonSlash)
                 before == {i \in 1..end : p[i] = "/"}
                 start == IF before = {} THEN 1 ELSE Max(before) + 1
             IN  SubSeq(p, start, end)

\* dirname: scanning back from the end, but never looking at the first character,
\* the first '/' met after a non-'/' character ends the directory part
dirname(p) ==
    IF Len(p) = 0 THEN <<".">>
    ELSE LET hasRoot == p[1] = "/"
             nonSlash == {i \in 2..Len(p) : p[i] # "/"}
             cut == IF nonSlash = {} THEN {}
                    ELSE {i \in 2..Max(nonSlash) : p[i] = "/"}
         IN  IF cut = {} THEN (IF hasRoot THEN <<"/">> ELSE <<".">>)
             ELSE IF hasRoot /\ Max(cut) = 2 THEN <<"/", "/">>
             ELSE SubSeq(p, 1, Max(cut) - 1)

includes(list, x) == \E i \in 1..Len(list) : list[i] = x

(***************************************************************************)
(* createDirectoryTree / getParentDir.  A Map keeps its keys in insertion  *)
(* order: keys is that order, node maps a key to its DirectoryTree.        *)
(***************************************************************************)
EmptyTree == [keys |-> <<>>, node |-> <<>>]

NewDirectoryTree == [subdirectories |-> <<>>, files |-> <<>>]

TreeHas(map, key) == includes(map.keys, key)

TreeGet(map, key) == map.node[CHOOSE i \in 1..Len(map.keys) : map.keys[i] = key]

TreeSet(map, key, v) ==
    IF TreeHas(map, key)
    THEN [map EXCEPT !.node[CHOOSE i \in 1..Len(map.keys) : map.keys[i] = key] = v]
    ELSE [keys |-> Append(map.keys, key), node |-> Append(map.node, v)]

PushSubdirectory(map, key, child) ==
    LET d == TreeGet(map, key)
    IN  TreeSet(map, key, [d EXCEPT !.subdirectories = Append(@, child)])

\* a variant: a file name pushed onto the subdirectories list
PushFile_AsSubdirectory(map, key, child) == PushSubdirectory(map, key, child)

PushFile(map, key, child) ==
    LET d == TreeGet(map, key)
    IN  TreeSet(map, key, [d EXCEPT !.files = Append(@, child)])

NormParent(p) == IF dirname(p) = <<".">> THEN <<>> ELSE dirname(p)

\* a variant: only the node itself is ensured, no ancestor of it
getParentDir_NoAncestors(key, map) ==
    IF TreeHas(map, key) THEN map ELSE TreeSet(map, key, NewDirectoryTree)

\* a variant: every ancestor gets its node, none is told about its child
RECURSIVE getParentDir_NoRegister(_, _)
getParentDir_NoRegister(key, map) ==
    LET parent == NormParent(key)
        child == basename(key)
        m1 == IF child # <<>> THEN getParentDir_NoRegister(parent, map) ELSE map
    IN  IF TreeHas(m1, key) THEN m1 ELSE TreeSet(m1, key, NewDirectoryTree)

\* getParentDir(key, new DirectoryTree(), map): the map afterwards.  The node it
\* returns is TreeGet(result, key).
RECURSIVE getParentDir(_, _)
getParentDir(key, map) ==
    LET parent == NormParent(key)
        child == basename(key)
        m1 == IF child # <<>>
              THEN LET m0 == getParentDir(parent, map)
                   IN  IF ~includes(TreeGet(m0, parent).subdirectories, child)
                       THEN PushSubdirectory(m0, parent, child)
                       ELSE m0
              ELSE map
    IN  IF TreeHas(m1, key) THEN m1 ELSE TreeSet(m1, key, NewDirectoryTree)

\* a variant: the name, not the size, tells a directory from a file
TreeAddEntry_ByName(map, entry) ==
    LET parent == NormParent(entry.fileName)
        child == basename(entry.fileName)
    IN  IF child = <<>> THEN map
        ELSE LET m1 == getParentDir(parent, map)
             IN  IF entry.fileName[Len(entry.fileName)] # "/"
                 THEN PushFile(m1, parent, child)
                 ELSE IF ~includes(TreeGet(m1, parent).subdirectories, child)
                      THEN PushSubdirectory(m1, parent, child)
                      ELSE m1

\* one iteration of createDirectoryTree's loop
TreeAddEntry(map, entry) ==
    LET parent == NormParent(entry.fileName)
        child == basename(entry.fileName)
    IN  IF child = <<>> THEN map
        ELSE LET m1 == getParentDir(parent, map)
             IN  IF entry.uncompressedSize > 0 THEN PushFile(m1, parent, child)
                 ELSE IF ~includes(TreeGet(m1, parent).subdirectories, child)
                      THEN PushSubdirectory(m1, parent, child)
                      ELSE m1

RECURSIVE TreeFold(_, _)
TreeFold(map, es) ==
    IF es = <<>> THEN map ELSE TreeFold(TreeAddEntry(map, Head(es)), Tail(es))

\* createDirectoryTree of a variant that always has a node for the root
createDirectoryTree_RootAlways(es) ==
    TreeFold(TreeSet(EmptyTree, <<>>, NewDirectoryTree), es)

createDirectoryTree(es) == TreeFold(EmptyTree, es)

(***************************************************************************)
(* ZipArchive flags, entry objects and the entry stores.                   *)
(***************************************************************************)
\* An archive path is a sequence of substrings.  /.*PL_Rebuilding.*def.*/.test(path)
isPLrebuildOf(path) ==
    \E i \in 1..Len(path) : \E j \in 1..Len(path) :
        i < j /\ path[i] = "PL_Rebuilding" /\ path[j] = "def"

\* path.includes('dlcsupport')
isDlcSupportOf(path) == \E i \in 1..Len(path) : path[i] = "dlcsupport"

\* entry.fileName.split('/').slice(1).join('/'), applied when the name includes '/'
TrimRoot(name) ==
    IF includes(name, "/")
    THEN LET first == CHOOSE i \in 1..Len(name) :
                          name[i] = "/" /\ \A j \in 1..(i - 1) : name[j] # "/"
         IN  SubSeq(name, first + 1, Len(name))
    ELSE name

\* a trimming that does not look at the flag
TrimEntries_Always(es, trim) == [i \in 1..Len(es) |-> [es[i] EXCEPT !.fileName = TrimRoot(@)]]

TrimEntries(es, trim) ==
    IF trim THEN [i \in 1..Len(es) |-> [es[i] EXCEPT !.fileName = TrimRoot(@)]] ELSE es

\* the record parseEntries() makes up for a key of the directory tree
SyntheticEntry(key) ==
    [compressedMethod |-> 0, compressedSize |-> 0, uncompressedSize |-> 0,
     fileNameLength |-> 0, extraFieldLength |-> 0, fileCommentLength |-> 0,
     localFileHeaderOffset |-> 0, fileName |-> key]

\* city64 of a string: a hash without collisions on the paths of the model
city64(s) == <<"city64", s>>

ZipArchiveFile(entry) == [type |-> "file", entry |-> entry]

ZipArchiveDirectory(entry, directoryTree) ==
    IF TreeHas(directoryTree, entry.fileName)
    THEN [type |-> "directory", entry |-> entry,
          subdirectories |-> TreeGet(directoryTree, entry.fileName).subdirectories,
          files |-> TreeGet(directoryTree, entry.fileName).files]
    ELSE [type |-> "directory", entry |-> entry, subdirectories |-> <<>>, files |-> <<>>]

createEntry(entry, directoryTree) ==
    IF entry.uncompressedSize > 0
    THEN ZipArchiveFile(entry)
    ELSE ZipArchiveDirectory(entry, directoryTree)

\* the hash getter of an entry: ZipArchiveEntry.hash is city64 of the file name,
\* ScsArchiveEntryV1.hash is the hash stored in the entry table
\* (in the adm-zip variant it is city64 of path.dirname of the entry name)
EntryHash(e) ==
    IF "metadata" \in DOMAIN e THEN e.metadata.hash
    ELSE IF "entryName" \in DOMAIN e.entry THEN city64(dirname(e.entry.entryName))
    ELSE city64(e.entry.fileName)

\* createStore(values, salt): hash -> value, a later value replacing an earlier
\* one with the same hash
createStore(values, salt) ==
    [h \in {EntryHash(values[i]) : i \in 1..Len(values)} |->
        values[Max({i \in 1..Len(values) : EntryHash(values[i]) = h})]]

\* parseEntries() from the scanned records on: the lists of directory and file
\* entries in the order they are pushed
ZipDirectoriesOf(es) ==
    LET directoryTree == createDirectoryTree(es)
        fromKeys == [i \in 1..Len(directoryTree.keys) |->
                        createEntry(SyntheticEntry(directoryTree.keys[i]), directoryTree)]
        IsDir(e) == e.type = "directory"
        NonEmpty(r) == r.uncompressedSize # 0
        fromRecs == LET kept == SelectSeq(es, NonEmpty)
                    IN  [i \in 1..Len(kept) |-> createEntry(kept[i], directoryTree)]
    IN  SelectSeq(fromKeys, IsDir) \o SelectSeq(fromRecs, IsDir)

ZipFilesOf(es) ==
    LET directoryTree == createDirectoryTree(es)
        IsFile(e) == e.type # "directory"
        NonEmpty(r) == r.uncompressedSize # 0
        kept == SelectSeq(es, NonEmpty)
        fromRecs == [i \in 1..Len(kept) |-> createEntry(kept[i], directoryTree)]
    IN  SelectSeq(fromRecs, IsFile)

BuildEntries(es) ==
    [directories |-> createStore(ZipDirectoriesOf(es), 0),
     files |-> createStore(ZipFilesOf(es), 0)]

(***************************************************************************)
(* Inputs: entry names, central-directory records, archive paths.          *)
(***************************************************************************)
\* paths of exactly d segments: a/.../a/x with x one of a, b
RECURSIVE PathsOfDepth(_)
PathsOfDepth(d) ==
    IF d = 1 THEN {<<"a">>, <<"b">>}
    ELSE {<<"a", "/">> \o p : p \in PathsOfDepth(d - 1)}

EntryNames == UNION {PathsOfDepth(d) : d \in 1..MaxDepth}

\* a record as the central-directory scan yields it
Record(name, usize, csize, method, lfho) ==
    [compressedMethod |-> method, compressedSize |-> csize, uncompressedSize |-> usize,
     fileNameLength |-> Len(name), extraFieldLength |-> 0, fileCommentLength |-> 0,
     localFileHeaderOffset |-> lfho, fileName |-> name]

\* a file of one byte, a zero-size record, a directory marker "name/", a
\* zero-size record of method 8
IndexRecords ==
    {Record(n, 1, 1, 0, 0) : n \in EntryNames}
        \cup {Record(n, 0, 0, 0, 0) : n \in EntryNames}
        \cup {Record(n \o <<"/">>, 0, 0, 0, 0) : n \in EntryNames}
        \cup {Record(n, 0, 2, 8, 0) : n \in EntryNames}

SeqsUpTo(S, n) == UNION {[1..k -> S] : k \in 0..n}

ArchivePaths ==
    {<<"mod/", "promods", ".zip">>,
     <<"mod/", "dlcsupport", ".zip">>,
     <<"PL_Rebuilding", "_", "def", ".zip">>}

(***************************************************************************)
(* The index build alone: parseEntries() from line 175 on, applied to a    *)
(* list of scanned records.                                                *)
(***************************************************************************)
InitIndex ==
    /\ kind = "index"
    /\ inp \in [recs : SeqsUpTo(IndexRecords, MaxRecs), path : ArchivePaths]
    /\ st = "ready"
    /\ fdOpen = TRUE
    /\ disposeCalled = FALSE
    /\ offset = 0
    /\ header = None
    /\ eocdOffset = -1
    /\ cdEntries = <<>>
    /\ entries = None
    /\ ret = None
    /\ reads = 0
    /\ short = FALSE
    /\ codecCalls = 0
    /\ globalDirectoryTree = EmptyTree
    /\ fdRefersTo = "own"

IndexBuild ==
    /\ kind = "index"
    /\ entries = None
    /\ LET es == TrimEntries(inp.recs, isPLrebuildOf(inp.path) \/ isDlcSupportOf(inp.path))
       IN  /\ cdEntries' = es
           /\ entries' = BuildEntries(es)
           /\ ret' = [op |-> "parseEntries", ok |-> TRUE, value |-> entries']
    /\ UNCHANGED <<kind, inp, st, fdOpen, disposeCalled, offset, header,
                   eocdOffset, reads, short, codecCalls,
                   globalDirectoryTree,
                   fdRefersTo>>

NextIndex == IndexBuild

SpecIndex == InitIndex /\ [][NextIndex]_vars

(***************************************************************************)
(* The adm-zip variant of ZipArchive: the library hands parseEntries() the *)
(* entries of the archive, each with its entryName and isDirectory, which  *)
(* the library derives from a trailing '/' of the name.                    *)
(***************************************************************************)
IZipEntry(name) ==
    [entryName |-> name, isDirectory |-> (name # <<>> /\ name[Len(name)] = "/")]

AdmRecords ==
    {IZipEntry(n) : n \in EntryNames} \cup {IZipEntry(n \o <<"/">>) : n \in EntryNames}

\* one iteration of the variant's createDirectoryTree loop
AdmTreeAddEntry(map, entry) ==
    LET parent == NormParent(entry.entryName)
        child == basename(entry.entryName)
    IN  IF child = <<>> THEN map
        ELSE LET m1 == IF TreeHas(map, parent) THEN map
                       ELSE TreeSet(map, parent, NewDirectoryTree)
             IN  IF entry.isDirectory THEN PushSubdirectory(m1, parent, child)
                 ELSE PushFile(m1, parent, child)

RECURSIVE AdmTreeFold(_, _)
AdmTreeFold(map, es) ==
    IF es = <<>> THEN map ELSE AdmTreeFold(AdmTreeAddEntry(map, Head(es)), Tail(es))

AdmCreateDirectoryTree(es) == AdmTreeFold(EmptyTree, es)

AdmZipArchiveFile(entry) == [type |-> "file", entry |-> entry]

\* the lists are those of the node for path.dirname(entryName), '.' included
AdmZipArchiveDirectory(entry, directoryTree) ==
    LET parent == dirname(entry.entryName)
    IN  IF TreeHas(directoryTree, parent)
        THEN [type |-> "directory", entry |-> entry,
              subdirectories |-> TreeGet(directoryTree, parent).subdirectories,
              files |-> TreeGet(directoryTree, parent).files]
        ELSE [type |-> "directory", entry |-> entry,
              subdirectories |-> <<>>, files |-> <<>>]

AdmCreateEntry(entry, directoryTree) ==
    IF entry.isDirectory
    THEN AdmZipArchiveDirectory(entry, directoryTree)
    ELSE AdmZipArchiveFile(entry)

\* parseEntries() from line 31 on: the entries made while the module-level
\* directoryTree has the value tree
AdmEntriesWith(es, tree) ==
    LET all == [i \in 1..Len(es) |-> AdmCreateEntry(es[i], tree)]
        IsDir(e) == e.type = "directory"
        IsFile(e) == e.type # "directory"
    IN  [directories |-> createStore(SelectSeq(all, IsDir), 0),
         files |-> createStore(SelectSeq(all, IsFile), 0)]

\* the Entries of an archive parsed by a process that opens no other archive
AdmBuildEntries(es) == AdmEntriesWith(es, AdmCreateDirectoryTree(es))

InitAdm ==
    /\ kind = "adm"
    /\ inp \in [recs : SeqsUpTo(AdmRecords, MaxRecs)]
    /\ st = "ready"
    /\ fdOpen = TRUE
    /\ disposeCalled = FALSE
    /\ offset = 0
    /\ header = None
    /\ eocdOffset = -1
    /\ cdEntries = <<>>
    /\ entries = None
    /\ ret = None
    /\ reads = 0
    /\ short = FALSE
    /\ codecCalls = 0
    /\ globalDirectoryTree = EmptyTree
    /\ fdRefersTo = "own"

\* ZipArchive.parseEntries() of the adm-zip variant
AdmParseEntries ==
    /\ kind = "adm"
    /\ IF entries # None
       THEN /\ ret' = [op |-> "parseEntries", ok |-> TRUE, value |-> entries]
            /\ UNCHANGED <<cdEntries, entries, globalDirectoryTree>>
       ELSE /\ cdEntries' = inp.recs
            /\ globalDirectoryTree' = AdmCreateDirectoryTree(inp.recs)
            /\ entries' = AdmEntriesWith(inp.recs, globalDirectoryTree')
            /\ ret' = [op |-> "parseEntries", ok |-> TRUE, value |-> entries']
    /\ UNCHANGED <<kind, inp, st, fdOpen, disposeCalled, offset, header,
                   eocdOffset, reads, short, codecCalls,
                   fdRefersTo>>

NextAdm == AdmParseEntries

SpecAdm == InitAdm /\ [][NextAdm]_vars

(***************************************************************************)
(* Two handles of the adm-zip variant in one process.  For this kind of    *)
(* behaviour inp.recs, st and entries are functions of the handle.         *)
(***************************************************************************)
Handles == {1, 2}

\* the entry lists of the second archive
OtherArchives ==
    {<<>>,
     <<IZipEntry(<<"b">>)>>,
     <<IZipEntry(<<"a", "/">>), IZipEntry(<<"a", "/", "b", "/">>), IZipEntry(<<"a", "/", "a">>)>>}

InitAdmPair ==
    /\ kind = "admpair"
    /\ inp \in [recs : {<<r1, r2>> : r1 \in SeqsUpTo(AdmRecords, MaxRecs), r2 \in OtherArchives}]
    /\ st = [h \in Handles |-> "new"]
    /\ fdOpen = TRUE
    /\ disposeCalled = FALSE
    /\ offset = 0
    /\ header = None
    /\ eocdOffset = -1
    /\ cdEntries = <<>>
    /\ entries = [h \in Handles |-> None]
    /\ ret = None
    /\ reads = 0
    /\ short = FALSE
    /\ codecCalls = 0
    /\ globalDirectoryTree = EmptyTree
    /\ fdRefersTo = "own"

\* new ZipArchive(path) of the adm-zip variant
AdmConstruct(h) ==
    /\ kind = "admpair"
    /\ st[h] = "new"
    /\ st' = [st EXCEPT ![h] = "ready"]
    /\ ret' = [op |-> "new", ok |-> TRUE]
    /\ UNCHANGED <<kind, inp, fdOpen, disposeCalled, offset, header, eocdOffset, cdEntries,
                   entries, reads, short, codecCalls, globalDirectoryTree,
                   fdRefersTo>>

\* a variant: the module-level tree is built by the first parse only
AdmParseEntriesOf_TreeOnce(h) ==
    /\ kind = "admpair"
    /\ st[h] = "ready"
    /\ IF entries[h] # None
       THEN /\ ret' = [op |-> "parseEntries", ok |-> TRUE, value |-> entries[h]]
            /\ UNCHANGED <<entries, globalDirectoryTree>>
       ELSE /\ globalDirectoryTree' = IF globalDirectoryTree = EmptyTree
                                      THEN AdmCreateDirectoryTree(inp.recs[h])
                                      ELSE globalDirectoryTree
            /\ entries' = [entries EXCEPT
                              ![h] = AdmEntriesWith(inp.recs[h], globalDirectoryTree')]
            /\ ret' = [op |-> "parseEntries", ok |-> TRUE, value |-> entries'[h]]
    /\ UNCHANGED <<kind, inp, st, fdOpen, disposeCalled, offset, header, eocdOffset,
                   cdEntries, reads, short, codecCalls,
                   fdRefersTo>>

\* parseEntries() on handle h
AdmParseEntriesOf(h) ==
    /\ kind = "admpair"
    /\ st[h] = "ready"
    /\ IF entries[h] # None
       THEN /\ ret' = [op |-> "parseEntries", ok |-> TRUE, value |-> entries[h]]
            /\ UNCHANGED <<entries, globalDirectoryTree>>
       ELSE /\ globalDirectoryTree' = AdmCreateDirectoryTree(inp.recs[h])
            /\ entries' = [entries EXCEPT
                              ![h] = AdmEntriesWith(inp.recs[h], globalDirectoryTree')]
            /\ ret' = [op |-> "parseEntries", ok |-> TRUE, value |-> entries'[h]]
    /\ UNCHANGED <<kind, inp, st, fdOpen, disposeCalled, offset, header, eocdOffset,
                   cdEntries, reads, short, codecCalls,
                   fdRefersTo>>

NextAdmPair == \E h \in Handles : AdmConstruct(h) \/ AdmParseEntriesOf(h)

SpecAdmPair == InitAdmPair /\ [][NextAdmPair]_vars

(***************************************************************************)
(* Program constants of the ZIP variant.                                   *)
(***************************************************************************)
EndOfCentralDirectorySig == 101010256          \* 0x06054b50
CentralDirectoryFileHeaderSig == 33639248      \* 0x02014b50
EndHeaderSize == 22
MaxCommentLength == 65535                      \* 0xffff
EocdStructSize == 18                           \* EndOfCentralDirectory.size()
CdStructSize == 42                             \* CentralDirectoryFileHeader.size()
LocalLengthsAt == 26                           \* offset of the lengths in a local header
MethodNone == 0
MethodDeflate == 8

(***************************************************************************)
(* fs.readSync into Buffer.alloc(length): the buffer is zero-filled, the   *)
(* bytes the file has at the position are copied in, the rest stays zero.  *)
(***************************************************************************)
ReadAt(f, position, length) ==
    [i \in 1..length |-> IF position + i <= Len(f) THEN f[position + i] ELSE 0]

\* the read got fewer bytes than it asked for
IsShort(f, position, length) == length > 0 /\ position + length > Len(f)

(***************************************************************************)
(* ZipArchive.FindEndHeaderOffset and the constructor.                     *)
(***************************************************************************)
\* the loop "for (index; index >= 0; index--)" over buffer, base = fileSize -
\* maxEndSize: the highest index at or below the start whose byte is 0x50 and
\* whose 4-byte little-endian value is the signature, -1 when there is none
ScanEndHeader(buffer, index, base) ==
    LET hits == {i \in 0..index :
                    buffer[i + 1] = 80
                        /\ readUInt32LE(buffer, i) = EndOfCentralDirectorySig}
    IN  IF hits = {} THEN -1 ELSE base + Max(hits)

\* a search of the whole file
FindEndHeaderOffset_WholeFile(f) == ScanEndHeader(f, Len(f) - EndHeaderSize, 0)

\* defined for fileSize > 0
FindEndHeaderOffset(f) ==
    LET fileSize == Len(f)
        maxEndSize == Min2(EndHeaderSize + MaxCommentLength, fileSize)
        buffer == ReadAt(f, fileSize - maxEndSize, maxEndSize)
    IN  ScanEndHeader(buffer, Len(buffer) - EndHeaderSize, fileSize - maxEndSize)

\* EndOfCentralDirectory.fromBuffer
DecodeEocd(buffer) ==
    [diskNr |-> readUInt16LE(buffer, 0),
     centralDirectoryDiskNr |-> readUInt16LE(buffer, 2),
     diskEntries |-> readUInt16LE(buffer, 4),
     totalEntries |-> readUInt16LE(buffer, 6),
     centralDirectorySize |-> readUInt32LE(buffer, 8),
     centralDirectoryOffset |-> readUInt32LE(buffer, 12),
     commentLength |-> readUInt16LE(buffer, 16)]

\* CentralDirectoryFileHeader.fromBuffer, the fields the archive layer uses
DecodeCd(buffer) ==
    [compressedMethod |-> readUInt16LE(buffer, 6),
     compressedSize |-> readUInt32LE(buffer, 16),
     uncompressedSize |-> readUInt32LE(buffer, 20),
     fileNameLength |-> readUInt16LE(buffer, 24),
     extraFieldLength |-> readUInt16LE(buffer, 26),
     fileCommentLength |-> readUInt16LE(buffer, 28),
     localFileHeaderOffset |-> readUInt32LE(buffer, 38)]

(***************************************************************************)
(* The central-directory scan of ZipArchive.parseEntries(): the records    *)
(* read, the cursor afterwards, the reads made and whether one was short.  *)
(***************************************************************************)
\* a scan that takes every position for a record, whatever its signature
RECURSIVE ScanCentralDirectory_NoSignatureTest(_, _, _, _)
ScanCentralDirectory_NoSignatureTest(f, off, end, acc) ==
    IF ~(off < end) THEN [acc EXCEPT !.offset = off]
    ELSE LET hd == DecodeCd(ReadAt(f, off + 4, CdStructSize))
             nameAt == off + 4 + CdStructSize
             next == nameAt + hd.fileNameLength + hd.extraFieldLength
                        + hd.fileCommentLength
             rec == hd @@ [fileName |-> toString(ReadAt(f, nameAt, hd.fileNameLength))]
         IN  ScanCentralDirectory_NoSignatureTest(f, next, end,
                 [records |-> Append(acc.records, rec), offset |-> next,
                  reads |-> acc.reads + 5,
                  short |-> acc.short \/ IsShort(f, off, next - off)])

\* a scan that goes on past the declared span until a signature fails
RECURSIVE ScanCentralDirectory_NoSpanTest(_, _, _, _)
ScanCentralDirectory_NoSpanTest(f, off, end, acc) ==
    LET signature == readUInt32LE(ReadAt(f, off, 4), 0)
    IN  IF signature # CentralDirectoryFileHeaderSig
        THEN [acc EXCEPT !.offset = off + 4, !.reads = @ + 1,
                         !.short = @ \/ IsShort(f, off, 4)]
        ELSE LET hd == DecodeCd(ReadAt(f, off + 4, CdStructSize))
                 nameAt == off + 4 + CdStructSize
                 next == nameAt + hd.fileNameLength + hd.extraFieldLength
                            + hd.fileCommentLength
                 rec == hd @@ [fileName |-> toString(ReadAt(f, nameAt, hd.fileNameLength))]
             IN  ScanCentralDirectory_NoSpanTest(f, next, end,
                     [records |-> Append(acc.records, rec), offset |-> next,
                      reads |-> acc.reads + 5,
                      short |-> acc.short \/ IsShort(f, off, next - off)])

RECURSIVE ScanCentralDirectory(_, _, _, _)
ScanCentralDirectory(f, off, end, acc) ==
    IF ~(off < end) THEN [acc EXCEPT !.offset = off]
    ELSE LET signature == readUInt32LE(ReadAt(f, off, 4), 0)
         IN  IF signature # CentralDirectoryFileHeaderSig
             THEN [acc EXCEPT !.offset = off + 4, !.reads = @ + 1,
                              !.short = @ \/ IsShort(f, off, 4)]
             ELSE LET hd == DecodeCd(ReadAt(f, off + 4, CdStructSize))
                      nameAt == off + 4 + CdStructSize
                      extraAt == nameAt + hd.fileNameLength
                      commentAt == extraAt + hd.extraFieldLength
                      next == commentAt + hd.fileCommentLength
                      rec == [compressedMethod |-> hd.compressedMethod,
                              compressedSize |-> hd.compressedSize,
                              uncompressedSize |-> hd.uncompressedSize,
                              fileNameLength |-> hd.fileNameLength,
                              extraFieldLength |-> hd.extraFieldLength,
                              fileCommentLength |-> hd.fileCommentLength,
                              localFileHeaderOffset |-> hd.localFileHeaderOffset,
                              fileName |-> toString(ReadAt(f, nameAt, hd.fileNameLength))]
                  IN  ScanCentralDirectory(f, next, end,
                          [records |-> Append(acc.records, rec),
                           offset |-> next,
                           reads |-> acc.reads + 5,
                           short |-> acc.short \/ IsShort(f, off, next - off)])

(***************************************************************************)
(* The native deflate primitive (libdeflate_deflate_decompress into a      *)
(* buffer of outLen bytes, no actual-size pointer), on streams of one      *)
(* final stored block: 0x01, LEN, NLEN = ~LEN, LEN literal bytes.          *)
(* Status 0 success, 1 bad data, 2 short output, 3 insufficient space.     *)
(***************************************************************************)
StoredBlock(data) == <<1>> \o LE16(Len(data)) \o LE16(65535 - Len(data)) \o data

\* a primitive that reports success whatever it is given
deflate_AlwaysOk(raw, outLen) == [status |-> 0, out |-> Zeros(outLen)]

deflate(raw, outLen) ==
    IF /\ Len(raw) >= 5
       /\ raw[1] = 1
       /\ readUInt16LE(raw, 1) + readUInt16LE(raw, 3) = 65535
       /\ Len(raw) >= 5 + readUInt16LE(raw, 1)
    THEN LET n == readUInt16LE(raw, 1)
         IN  IF n > outLen THEN [status |-> 3, out |-> Zeros(outLen)]
             ELSE IF n < outLen
                  THEN [status |-> 2, out |-> SubSeq(raw, 6, 5 + n) \o Zeros(outLen - n)]
             ELSE [status |-> 0, out |-> SubSeq(raw, 6, 5 + n)]
    ELSE [status |-> 1, out |-> Zeros(outLen)]

\* a variant: the position is added to the cursor
SetOffset_Relative(cursor, position) == cursor + position

\* "set offset(position)": the cursor after the assignment
SetOffset(cursor, position) == position

\* a read() that skips the lengths the central directory declares
ZipEntryRead_CentralLengths(f, cursor, entry) ==
    LET at == SetOffset(cursor, entry.localFileHeaderOffset + LocalLengthsAt)
        dataAt == at + 4 + entry.fileNameLength + entry.extraFieldLength
        rawData == ReadAt(f, dataAt, entry.compressedSize)
        isShort == IsShort(f, at, 4) \/ IsShort(f, dataAt, entry.compressedSize)
        after == dataAt + entry.compressedSize
    IN  IF entry.compressedMethod = MethodDeflate
        THEN LET result == deflate(rawData, entry.uncompressedSize)
             IN  IF result.status # 0
                 THEN [ok |-> FALSE, error |-> <<"deflate error", result.status>>,
                       offset |-> after, short |-> isShort, codec |-> 1]
                 ELSE [ok |-> TRUE, value |-> result.out,
                       offset |-> after, short |-> isShort, codec |-> 1]
        ELSE IF entry.compressedMethod = MethodNone
        THEN [ok |-> TRUE, value |-> rawData,
              offset |-> after, short |-> isShort, codec |-> 0]
        ELSE [ok |-> FALSE,
              error |-> <<"unsupported compression type", entry.compressedMethod>>,
              offset |-> after, short |-> isShort, codec |-> 0]

(***************************************************************************)
(* ZipArchiveEntry.read() on an open descriptor whose reader has its       *)
(* cursor at cursor: the outcome, the cursor afterwards, and whether a     *)
(* read was short.                                                         *)
(***************************************************************************)
ZipEntryRead(f, cursor, entry) ==
    LET at == SetOffset(cursor, entry.localFileHeaderOffset + LocalLengthsAt)
        fileNameLength == readUInt16LE(ReadAt(f, at, 2), 0)
        extraFieldLength == readUInt16LE(ReadAt(f, at + 2, 2), 0)
        dataAt == at + 4 + fileNameLength + extraFieldLength
        rawData == ReadAt(f, dataAt, entry.compressedSize)
        isShort == IsShort(f, at, 4) \/ IsShort(f, dataAt, entry.compressedSize)
        after == dataAt + entry.compressedSize
    IN  IF entry.compressedMethod = MethodDeflate
        THEN LET result == deflate(rawData, entry.uncompressedSize)
             IN  IF result.status # 0
                 THEN [ok |-> FALSE, error |-> <<"deflate error", result.status>>,
                       offset |-> after, short |-> isShort, codec |-> 1]
                 ELSE [ok |-> TRUE, value |-> result.out,
                       offset |-> after, short |-> isShort, codec |-> 1]
        ELSE IF entry.compressedMethod = MethodNone
        THEN [ok |-> TRUE, value |-> rawData,
              offset |-> after, short |-> isShort, codec |-> 0]
        ELSE [ok |-> FALSE,
              error |-> <<"unsupported compression type", entry.compressedMethod>>,
              offset |-> after, short |-> isShort, codec |-> 0]

(***************************************************************************)
(* ZIP images on disk, generated from a description:                       *)
(*   recs     the members: name, uncompressed size, method, stored bytes,  *)
(*            length of the extra field of the local header                *)
(*   cd       what the end record declares about the central directory     *)
(*   comment  the trailing comment and the length the end record declares  *)
(*   path     the archive's own path                                       *)
(*   cut      "all", "tiny" (the first TinyFile bytes) or "empty"; "window" *)
(*            is an end record at offset 0 followed by as many bytes as    *)
(*            the longest comment has, "beyond" by one byte more           *)
(***************************************************************************)
Member(name, usize, method, raw, localExtra) ==
    [name |-> name, usize |-> usize, method |-> method, raw |-> raw,
     localExtra |-> localExtra]

ZipMembers ==
    {Member(<<"a", "/", "b">>, 2, MethodNone, <<97, 98>>, 0),
     Member(<<"b">>, 1, MethodDeflate, StoredBlock(<<97>>), 1),
     Member(<<"a", "/">>, 0, MethodNone, <<>>, 0),
     Member(<<"a">>, 1, MethodDeflate, <<7>>, 0)}

\* members whose read() fails: a stream shorter than the declared size, a stream
\* longer than it, a method that is neither stored nor deflate
ReadMembers ==
    {Member(<<"b">>, 2, MethodDeflate, StoredBlock(<<97>>), 0),
     Member(<<"b">>, 1, MethodDeflate, StoredBlock(<<97, 98>>), 0),
     Member(<<"a", "/", "b">>, 1, 12, <<97>>, 0)}

\* a stored member whose local header has an extra field the central record
\* does not declare
LocalExtraMembers == {Member(<<"a">>, 2, MethodNone, <<98, 97>>, 2)}

LocalImage(m) ==
    <<80, 75, 3, 4>> \o Zeros(LocalLengthsAt - 4)
        \o LE16(Len(m.name)) \o LE16(m.localExtra)
        \o Bytes(m.name) \o Zeros(m.localExtra) \o m.raw

RECURSIVE LocalOffset(_, _)
LocalOffset(ms, i) ==
    IF i = 1 THEN 0 ELSE LocalOffset(ms, i - 1) + Len(LocalImage(ms[i - 1]))

CentralImage(m, lfho, sig) ==
    LE32(sig)
        \o LE16(0) \o LE16(0) \o LE16(0) \o LE16(m.method) \o LE16(0) \o LE16(0)
        \o LE32(0) \o LE32(Len(m.raw)) \o LE32(m.usize)
        \o LE16(Len(m.name)) \o LE16(0) \o LE16(0) \o LE16(0) \o LE16(0)
        \o LE32(0) \o LE32(lfho)
        \o Bytes(m.name)

EocdImage(entryCount, cdSize, cdOffset, commentLength) ==
    LE32(EndOfCentralDirectorySig)
        \o LE16(0) \o LE16(0) \o LE16(entryCount) \o LE16(entryCount)
        \o LE32(cdSize) \o LE32(cdOffset) \o LE16(commentLength)

CdModes == {"exact", "empty", "over", "corrupt"}

ZipComments ==
    {[bytes |-> <<>>, declared |-> 0],
     [bytes |-> <<80, 75, 5, 6>>, declared |-> 4],
     [bytes |-> <<80, 75, 5, 6>> \o Zeros(19), declared |-> 23],
     [bytes |-> <<97>>, declared |-> 3]}

ZipLocals(d) == Concat([i \in 1..Len(d.recs) |-> LocalImage(d.recs[i])])

\* in mode "corrupt" the last record's signature is zeroed
ZipCentral(d) ==
    Concat([i \in 1..Len(d.recs) |->
               CentralImage(d.recs[i], LocalOffset(d.recs, i),
                            IF d.cd = "corrupt" /\ i = Len(d.recs)
                            THEN 0 ELSE CentralDirectoryFileHeaderSig)])

\* where the generated image has its end-of-central-directory record
TrueEocdOffset(d) == Len(ZipLocals(d)) + Len(ZipCentral(d))

ZipImage(d) ==
    LET cdSize == CASE d.cd = "empty" -> 0
                    [] d.cd = "over" -> Len(ZipCentral(d)) + 4
                    [] OTHER -> Len(ZipCentral(d))
        whole == ZipLocals(d) \o ZipCentral(d)
                    \o EocdImage(Len(d.recs), cdSize, Len(ZipLocals(d)), d.comment.declared)
                    \o d.comment.bytes
    IN  CASE d.cut = "all" -> whole
          [] d.cut = "tiny" -> SubSeq(whole, 1, TinyFile)
          [] d.cut = "window" -> EocdImage(0, 0, 0, 0) \o Zeros(MaxCommentLength)
          [] d.cut = "beyond" -> EocdImage(0, 0, 0, 0) \o Zeros(MaxCommentLength + 1)
          [] OTHER -> <<>>

ZipInputs ==
    [recs : SeqsUpTo(ZipMembers, MaxRecs), cd : CdModes, comment : ZipComments,
     path : ArchivePaths, cut : {"all"}]
        \cup [recs : {<<>>}, cd : {"exact"}, comment : {[bytes |-> <<>>, declared |-> 0]},
              path : {<<"mod/", "promods", ".zip">>},
              cut : {"empty", "tiny", "window", "beyond"}]
        \cup [recs : {<<m>> : m \in ReadMembers \cup LocalExtraMembers}
                        \cup {<<m, m>> : m \in LocalExtraMembers},
              cd : {"exact"},
              comment : {[bytes |-> <<>>, declared |-> 0]},
              path : ArchivePaths, cut : {"all"}]

(***************************************************************************)
(* The ScsV1 container.                                                    *)
(***************************************************************************)
FileHeaderV1Size == 20         \* FileHeaderV1.size()
EntryHeaderV1Size == 32        \* EntryHeaderV1.size()

\* r.int16le / r.int32le: two's complement
readInt16LE(buf, pos) ==
    LET u == readUInt16LE(buf, pos) IN IF u >= 32768 THEN u - 65536 ELSE u

readInt32LE(buf, pos) ==
    IF buf[pos + 4] >= 128
    THEN (buf[pos + 1] + 256 * buf[pos + 2] + 65536 * buf[pos + 3]
             + 16777216 * (buf[pos + 4] - 128)) - 2147483647 - 1
    ELSE readUInt32LE(buf, pos)

\* uint64le, kept as its two 32-bit words
readUInt64LE(buf, pos) == [lo |-> readUInt32LE(buf, pos), hi |-> readUInt32LE(buf, pos + 4)]

\* a value below 2^31 as uint64le
LE64(v) == LE32(v) \o LE32(0)

\* FileHeaderV1.fromBuffer
DecodeFileHeaderV1(buffer) ==
    [magic |-> SubSeq(buffer, 1, 4),
     version |-> readInt16LE(buffer, 4),
     salt |-> readInt16LE(buffer, 6),
     hashMethod |-> SubSeq(buffer, 9, 12),
     numEntries |-> readInt32LE(buffer, 12),
     entriesOffset |-> readInt32LE(buffer, 16)]

MagicSCS == <<83, 67, 83, 35>>        \* 'SCS#'
HashMethodCITY == <<67, 73, 84, 89>>  \* 'CITY'

\* isValid() without the version test
ScsIsValid_AnyVersion(h) == h.magic = MagicSCS /\ h.hashMethod = HashMethodCITY

\* ScsArchiveV1.isValid()
ScsIsValid(h) == h.magic = MagicSCS /\ h.hashMethod = HashMethodCITY /\ h.version = 1

\* EntryHeaderV1.fromBuffer at index k (0-based) of the entry table, as the
\* metadata parseEntries() passes to createEntryV1
DecodeEntryV1(buffer, k) ==
    LET at == EntryHeaderV1Size * k
        flags == readUInt32LE(buffer, at + 16)
    IN  [hash |-> readUInt64LE(buffer, at),
         offset |-> readUInt64LE(buffer, at + 8),
         size |-> readUInt32LE(buffer, at + 28),
         isDirectory |-> flags % 2 = 1,
         isDataCompressed |-> (flags \div 2) % 2 = 1]

(***************************************************************************)
(* zlib.inflateSync on streams of the form 0x78 0x01, one final stored     *)
(* block, the Adler-32 of the data (big-endian); anything else throws.     *)
(***************************************************************************)
RECURSIVE AdlerA(_)
AdlerA(data) ==
    IF data = <<>> THEN 1
    ELSE (AdlerA(SubSeq(data, 1, Len(data) - 1)) + data[Len(data)]) % 65521

RECURSIVE AdlerB(_)
AdlerB(data) ==
    IF data = <<>> THEN 0
    ELSE (AdlerB(SubSeq(data, 1, Len(data) - 1)) + AdlerA(data)) % 65521

Adler32Bytes(data) ==
    <<AdlerB(data) \div 256, AdlerB(data) % 256, AdlerA(data) \div 256, AdlerA(data) % 256>>

ZlibStream(data) == <<120, 1>> \o StoredBlock(data) \o Adler32Bytes(data)

inflateSync(raw) ==
    IF /\ Len(raw) >= 11
       /\ raw[1] = 120 /\ raw[2] = 1 /\ raw[3] = 1
       /\ readUInt16LE(raw, 3) + readUInt16LE(raw, 5) = 65535
       /\ Len(raw) >= 11 + readUInt16LE(raw, 3)
       /\ LET n == readUInt16LE(raw, 3)
          IN  SubSeq(raw, 8 + n, 11 + n) = Adler32Bytes(SubSeq(raw, 8, 7 + n))
    THEN [ok |-> TRUE, value |-> SubSeq(raw, 8, 7 + readUInt16LE(raw, 3))]
    ELSE [ok |-> FALSE]

(***************************************************************************)
(* ScsArchiveEntryV1.read() on an open descriptor.                         *)
(***************************************************************************)
\* a read() that never inflates
ScsEntryRead_NoInflate(f, metadata) ==
    IF metadata.size = 0
    THEN [value |-> <<>>, reads |-> 0, short |-> FALSE, codec |-> 0, logged |-> FALSE]
    ELSE [value |-> ReadAt(f, metadata.offset.lo, metadata.size), reads |-> 1,
          short |-> IsShort(f, metadata.offset.lo, metadata.size), codec |-> 0,
          logged |-> FALSE]

ScsEntryRead(f, metadata) ==
    IF metadata.size = 0
    THEN [value |-> <<>>, reads |-> 0, short |-> FALSE, codec |-> 0, logged |-> FALSE]
    ELSE LET \* a position of 2^32 or more lies beyond the end of every file
             position == IF metadata.offset.hi = 0 THEN metadata.offset.lo ELSE Len(f)
             rawData == ReadAt(f, position, metadata.size)
             isShort == IsShort(f, position, metadata.size)
         IN  IF ~metadata.isDataCompressed
             THEN [value |-> rawData, reads |-> 1, short |-> isShort, codec |-> 0,
                   logged |-> FALSE]
             ELSE IF inflateSync(rawData).ok
             THEN [value |-> inflateSync(rawData).value, reads |-> 1, short |-> isShort,
                   codec |-> 1, logged |-> FALSE]
             ELSE [value |-> rawData, reads |-> 1, short |-> isShort, codec |-> 1,
                   logged |-> TRUE]

(***************************************************************************)
(* ScsArchiveDirectoryV1: the listing is parsed from the entry's own bytes.*)
(***************************************************************************)
\* a split on LF alone
IsLineBreak_LFOnly(c) == c = "LF"

IsLineBreak(c) == c = "CR" \/ c = "LF"

\* str.split(/[\r\n]/): the pieces between line-break characters, empty ones kept
RECURSIVE SplitLines(_)
SplitLines(str) ==
    IF \A i \in 1..Len(str) : ~IsLineBreak(str[i]) THEN <<str>>
    ELSE LET first == CHOOSE i \in 1..Len(str) :
                          IsLineBreak(str[i]) /\ \A j \in 1..(i - 1) : ~IsLineBreak(str[j])
         IN  <<SubSeq(str, 1, first - 1)>> \o SplitLines(SubSeq(str, first + 1, Len(str)))

\* the loop over the pieces: [subdirectories, files]
RECURSIVE ListingLoop(_, _)
ListingLoop(pieces, acc) ==
    IF pieces = <<>> THEN acc
    ELSE LET str == Head(pieces)
         IN  IF str \in {<<>>, <<"LF">>, <<"CR">>} THEN ListingLoop(Tail(pieces), acc)
             ELSE IF str[1] = "*"
             THEN ListingLoop(Tail(pieces),
                      [acc EXCEPT !.subdirectories = Append(@, SubSeq(str, 2, Len(str)))])
             ELSE ListingLoop(Tail(pieces), [acc EXCEPT !.files = Append(@, str)])

ParseListing(str) == ListingLoop(SplitLines(str), [subdirectories |-> <<>>, files |-> <<>>])

ScsArchiveFileV1(metadata) == [type |-> "file", metadata |-> metadata]

ScsArchiveDirectoryV1(f, metadata) ==
    LET listing == ParseListing(toString(ScsEntryRead(f, metadata).value))
    IN  [type |-> "directory", metadata |-> metadata,
         subdirectories |-> listing.subdirectories, files |-> listing.files]

\* a variant: every record becomes a file entry
createEntryV1_AlwaysFile(f, metadata) == ScsArchiveFileV1(metadata)

createEntryV1(f, metadata) ==
    IF metadata.isDirectory
    THEN ScsArchiveDirectoryV1(f, metadata)
    ELSE ScsArchiveFileV1(metadata)

(***************************************************************************)
(* ScsV1 images on disk, generated from a description: the header fields,  *)
(* the members ents (hash, flags, stored bytes) and extra, the number of   *)
(* entries the header declares beyond those the file holds.                *)
(***************************************************************************)
ScsMember(hash, isDirectory, isCompressed, data) ==
    [hash |-> hash, isDirectory |-> isDirectory, isCompressed |-> isCompressed,
     data |-> data]

ScsMembers ==
    {ScsMember(1, FALSE, FALSE, <<97>>),
     ScsMember(2, FALSE, TRUE, ZlibStream(<<97, 98>>)),
     ScsMember(3, FALSE, TRUE, <<7, 7>>),
     ScsMember(4, TRUE, FALSE, Bytes(<<"*", "a", "CR", "LF", "b", "CR", "LF">>)),
     ScsMember(5, TRUE, TRUE, ZlibStream(Bytes(<<"b", "LF">>))),
     ScsMember(6, FALSE, FALSE, <<>>)}

RECURSIVE ScsDataOffset(_, _)
ScsDataOffset(ms, i) ==
    IF i = 1 THEN FileHeaderV1Size ELSE ScsDataOffset(ms, i - 1) + Len(ms[i - 1].data)

ScsEntryImage(m, at) ==
    LE64(m.hash) \o LE64(at)
        \o LE32((IF m.isDirectory THEN 1 ELSE 0) + (IF m.isCompressed THEN 2 ELSE 0))
        \o LE32(0) \o LE32(Len(m.data)) \o LE32(Len(m.data))

ScsImage(d) ==
    LET payload == Concat([i \in 1..Len(d.ents) |-> d.ents[i].data])
    IN  d.magic \o LE16(d.version) \o LE16(d.salt) \o d.hashMethod
            \o LE32(Len(d.ents) + d.extra) \o LE32(FileHeaderV1Size + Len(payload))
            \o payload
            \o Concat([i \in 1..Len(d.ents) |->
                          ScsEntryImage(d.ents[i], ScsDataOffset(d.ents, i))])

ScsInputs ==
    [magic : {MagicSCS}, version : {1}, hashMethod : {HashMethodCITY}, salt : {0},
     ents : SeqsUpTo(ScsMembers, MaxRecs), extra : {0, 1}]
        \cup [magic : {MagicSCS, <<83, 67, 83, 33>>}, version : {1, 2},
              hashMethod : {HashMethodCITY, <<67, 73, 84, 88>>}, salt : {0},
              ents : SeqsUpTo(ScsMembers, 1), extra : {0}]

\* the bytes of the archive file on disk
File ==
    CASE kind = "zip" -> ZipImage(inp)
      [] kind = "scs" -> ScsImage(inp)
      [] kind = "zipByPath" -> ZipImage(inp)
      [] kind = "listing" -> Bytes(inp.payload)
      [] OTHER -> <<>>

\* another archive of the same directory
OtherArchive ==
    ZipImage([recs |-> <<Member(<<"b">>, 2, MethodNone, <<98, 98>>, 0)>>, cd |-> "exact",
              comment |-> [bytes |-> <<>>, declared |-> 0],
              path |-> <<"mod/", "promods", ".zip">>, cut |-> "all"])

\* the bytes fs.readSync gets through the handle's descriptor number
FdFile == IF fdRefersTo = "other" THEN OtherArchive ELSE File

(***************************************************************************)
(* The ZIP handle.  The caller opens the descriptor and passes it to the   *)
(* constructor; a read on a closed descriptor throws (EBADF).              *)
(***************************************************************************)
Range(f) == {f[x] : x \in DOMAIN f}

\* a handle whose memo test never succeeds
Memoized_Never(es) == FALSE

\* "if (this.entries)": an Entries object is truthy, undefined is not
Memoized(es) == es # None

InitZip ==
    /\ kind = "zip"
    /\ inp \in ZipInputs
    /\ st = "new"
    /\ fdOpen = TRUE
    /\ disposeCalled = FALSE
    /\ offset = 0
    /\ header = None
    /\ eocdOffset = -1
    /\ cdEntries = <<>>
    /\ entries = None
    /\ ret = None
    /\ reads = 0
    /\ short = FALSE
    /\ codecCalls = 0
    /\ globalDirectoryTree = EmptyTree
    /\ fdRefersTo = "own"

\* new ZipArchive(fd, path)
ZipConstruct ==
    /\ kind = "zip"
    /\ st = "new"
    /\ codecCalls' = 0
    /\ IF Len(File) = 0
       THEN \* assert(fileSize > 0)
            /\ st' = "failed"
            /\ ret' = [op |-> "new", ok |-> FALSE, error |-> "assert"]
            /\ reads' = 0
            /\ short' = FALSE
            /\ UNCHANGED <<offset, header, eocdOffset>>
       ELSE LET found == FindEndHeaderOffset(File)
            IN  IF found < 0
                THEN \* assert(this.endOfCentralDirOffset >= 0)
                     /\ st' = "failed"
                     /\ ret' = [op |-> "new", ok |-> FALSE, error |-> "assert"]
                     /\ reads' = 1
                     /\ short' = FALSE
                     /\ offset' = Len(File)
                     /\ eocdOffset' = found
                     /\ UNCHANGED header
                ELSE LET record == DecodeEocd(ReadAt(File, found + 4, EocdStructSize))
                         commentAt == found + 4 + EocdStructSize
                     IN  /\ st' = "ready"
                         /\ eocdOffset' = found
                         /\ header' = record @@
                                [comment |-> toString(ReadAt(File, commentAt,
                                                             record.commentLength))]
                         /\ offset' = commentAt + record.commentLength
                         /\ reads' = 3
                         /\ short' = (IsShort(File, found + 4, EocdStructSize)
                                        \/ IsShort(File, commentAt, record.commentLength))
                         /\ ret' = [op |-> "new", ok |-> TRUE]
    /\ UNCHANGED <<kind, inp, fdOpen, disposeCalled, cdEntries, entries,
                   globalDirectoryTree,
                   fdRefersTo>>

\* ZipArchive.parseEntries()
ZipParseEntries ==
    /\ kind = "zip"
    /\ st = "ready"
    /\ codecCalls' = 0
    /\ IF Memoized(entries)
       THEN \* the memoized value
            /\ ret' = [op |-> "parseEntries", ok |-> TRUE, value |-> entries]
            /\ reads' = 0
            /\ short' = FALSE
            /\ UNCHANGED <<offset, cdEntries, entries>>
       ELSE IF ~fdOpen /\ header.centralDirectorySize > 0
       THEN \* the first ReadUInt32LE of the scan throws
            /\ offset' = header.centralDirectoryOffset
            /\ ret' = [op |-> "parseEntries", ok |-> FALSE, error |-> "EBADF"]
            /\ reads' = 0
            /\ short' = FALSE
            /\ UNCHANGED <<cdEntries, entries>>
       ELSE LET scan == ScanCentralDirectory(FdFile, header.centralDirectoryOffset,
                            header.centralDirectoryOffset + header.centralDirectorySize,
                            [records |-> <<>>, offset |-> header.centralDirectoryOffset,
                             reads |-> 0, short |-> FALSE])
                es == TrimEntries(scan.records,
                                  isPLrebuildOf(inp.path) \/ isDlcSupportOf(inp.path))
            IN  /\ offset' = scan.offset
                /\ reads' = scan.reads
                /\ short' = scan.short
                /\ cdEntries' = es
                /\ entries' = BuildEntries(es)
                /\ ret' = [op |-> "parseEntries", ok |-> TRUE, value |-> entries']
    /\ UNCHANGED <<kind, inp, st, fdOpen, disposeCalled, header, eocdOffset,
                   globalDirectoryTree,
                   fdRefersTo>>

\* read() of an entry obtained from parseEntries()
ZipRead ==
    /\ kind = "zip"
    /\ entries # None
    /\ \E e \in Range(entries.files) \cup Range(entries.directories) :
          IF ~fdOpen
          THEN \* the first ReadUInt16LE throws
               /\ offset' = SetOffset(offset, e.entry.localFileHeaderOffset + LocalLengthsAt)
               /\ ret' = [op |-> "read", ok |-> FALSE, error |-> "EBADF", of |-> e]
               /\ reads' = 0
               /\ short' = FALSE
               /\ codecCalls' = 0
          ELSE LET r == ZipEntryRead(FdFile, offset, e.entry)
               IN  /\ offset' = r.offset
                   /\ ret' = IF r.ok
                             THEN [op |-> "read", ok |-> TRUE, value |-> r.value, of |-> e]
                             ELSE [op |-> "read", ok |-> FALSE, error |-> r.error,
                                   of |-> e]
                   /\ reads' = 3
                   /\ short' = r.short
                   /\ codecCalls' = r.codec
    /\ UNCHANGED <<kind, inp, st, fdOpen, disposeCalled, header, eocdOffset,
                   cdEntries, entries,
                   globalDirectoryTree,
                   fdRefersTo>>

\* a dispose() that leaves the descriptor open
ZipDispose_NoClose ==
    /\ kind = "zip"
    /\ st = "ready"
    /\ disposeCalled' = TRUE
    /\ ret' = [op |-> "dispose", ok |-> TRUE]
    /\ reads' = 0
    /\ short' = FALSE
    /\ codecCalls' = 0
    /\ UNCHANGED <<kind, inp, st, fdOpen, offset, header, eocdOffset, cdEntries, entries,
                   globalDirectoryTree,
                   fdRefersTo>>

\* ZipArchive.dispose(): fs.closeSync throws on a descriptor already closed
ZipDispose ==
    /\ kind = "zip"
    /\ st = "ready"
    /\ disposeCalled' = TRUE
    /\ fdOpen' = FALSE
    /\ ret' = [op |-> "dispose", ok |-> fdOpen]
    /\ reads' = 0
    /\ short' = FALSE
    /\ codecCalls' = 0
    /\ UNCHANGED <<kind, inp, st, offset, header, eocdOffset, cdEntries, entries,
                   globalDirectoryTree,
                   fdRefersTo>>

(***************************************************************************)
(* The ZipArchive variant whose constructor takes the path alone: its      *)
(* ZipReader opens the descriptor itself.  fdOpen tells whether the        *)
(* descriptor that constructor opened is open; st = "failed" means the     *)
(* constructor threw, so that the caller has no ZipArchive object.         *)
(***************************************************************************)
InitZipByPath ==
    /\ kind = "zipByPath"
    /\ inp \in ZipInputs
    /\ st = "new"
    /\ fdOpen = FALSE
    /\ disposeCalled = FALSE
    /\ offset = 0
    /\ header = None
    /\ eocdOffset = -1
    /\ cdEntries = <<>>
    /\ entries = None
    /\ ret = None
    /\ reads = 0
    /\ short = FALSE
    /\ codecCalls = 0
    /\ globalDirectoryTree = EmptyTree
    /\ fdRefersTo = "own"

\* new ZipArchive(path): new ZipReader(path) opens the file, then the end
\* record is searched and decoded
ZipByPathConstruct ==
    /\ kind = "zipByPath"
    /\ st = "new"
    /\ fdOpen' = TRUE
    /\ codecCalls' = 0
    /\ IF Len(File) = 0
       THEN \* assert(fileSize > 0)
            /\ st' = "failed"
            /\ ret' = [op |-> "new", ok |-> FALSE, error |-> "assert"]
            /\ reads' = 0
            /\ short' = FALSE
            /\ UNCHANGED <<offset, header, eocdOffset>>
       ELSE LET found == FindEndHeaderOffset(File)
            IN  IF found < 0
                THEN \* assert(this.endOfCentralDirOffset >= 0)
                     /\ st' = "failed"
                     /\ ret' = [op |-> "new", ok |-> FALSE, error |-> "assert"]
                     /\ reads' = 1
                     /\ short' = FALSE
                     /\ offset' = Len(File)
                     /\ eocdOffset' = found
                     /\ UNCHANGED header
                ELSE LET record == DecodeEocd(ReadAt(File, found + 4, EocdStructSize))
                         commentAt == found + 4 + EocdStructSize
                     IN  /\ st' = "ready"
                         /\ eocdOffset' = found
                         /\ header' = record @@
                                [comment |-> toString(ReadAt(File, commentAt,
                                                             record.commentLength))]
                         /\ offset' = commentAt + record.commentLength
                         /\ reads' = 3
                         /\ short' = (IsShort(File, found + 4, EocdStructSize)
                                        \/ IsShort(File, commentAt, record.commentLength))
                         /\ ret' = [op |-> "new", ok |-> TRUE]
    /\ UNCHANGED <<kind, inp, disposeCalled, cdEntries, entries, globalDirectoryTree,
                   fdRefersTo>>

\* ZipArchive.dispose() of that variant, on the object the constructor returned
ZipByPathDispose ==
    /\ kind = "zipByPath"
    /\ st = "ready"
    /\ disposeCalled' = TRUE
    /\ fdOpen' = FALSE
    /\ ret' = [op |-> "dispose", ok |-> fdOpen]
    /\ reads' = 0
    /\ short' = FALSE
    /\ codecCalls' = 0
    /\ UNCHANGED <<kind, inp, st, offset, header, eocdOffset, cdEntries, entries,
                   globalDirectoryTree,
                   fdRefersTo>>

NextZipByPath == ZipByPathConstruct \/ ZipByPathDispose

SpecZipByPath == InitZipByPath /\ [][NextZipByPath]_vars

(***************************************************************************)
(* The ScsV1 handle.                                                       *)
(***************************************************************************)
InitScs ==
    /\ kind = "scs"
    /\ inp \in ScsInputs
    /\ st = "new"
    /\ fdOpen = TRUE
    /\ disposeCalled = FALSE
    /\ offset = 0
    /\ header = None
    /\ eocdOffset = -1
    /\ cdEntries = <<>>
    /\ entries = None
    /\ ret = None
    /\ reads = 0
    /\ short = FALSE
    /\ codecCalls = 0
    /\ globalDirectoryTree = EmptyTree
    /\ fdRefersTo = "own"

\* new ScsArchiveV1(fd, path)
ScsConstruct ==
    /\ kind = "scs"
    /\ st = "new"
    /\ st' = "ready"
    /\ header' = DecodeFileHeaderV1(ReadAt(File, 0, FileHeaderV1Size))
    /\ ret' = [op |-> "new", ok |-> TRUE]
    /\ reads' = 1
    /\ short' = IsShort(File, 0, FileHeaderV1Size)
    /\ codecCalls' = 0
    /\ UNCHANGED <<kind, inp, fdOpen, disposeCalled, offset, eocdOffset, cdEntries, entries,
                   globalDirectoryTree,
                   fdRefersTo>>

\* the entries parseEntries() creates from the entry table, in table order
ScsEntryList(f, h) ==
    LET table == ReadAt(f, h.entriesOffset, EntryHeaderV1Size * h.numEntries)
    IN  [k \in 1..h.numEntries |-> createEntryV1(f, DecodeEntryV1(table, k - 1))]

\* the arrays "directories" and "files" parseEntries() pushes the entries onto
ScsDirectoriesOf(f, h) ==
    LET IsDir(e) == e.type = "directory" IN SelectSeq(ScsEntryList(f, h), IsDir)

ScsFilesOf(f, h) ==
    LET IsFile(e) == e.type # "directory" IN SelectSeq(ScsEntryList(f, h), IsFile)

\* the reads the constructors of the directory entries make
ScsListingReads(f, es) ==
    {i \in 1..Len(es) : es[i].type = "directory" /\ es[i].metadata.size > 0}

\* ScsArchiveV1.parseEntries()
ScsParseEntries ==
    /\ kind = "scs"
    /\ st = "ready"
    /\ IF ~ScsIsValid(header)
       THEN \* Preconditions.checkState(this.isValid())
            /\ ret' = [op |-> "parseEntries", ok |-> FALSE, error |-> "checkState"]
            /\ reads' = 0
            /\ short' = FALSE
            /\ codecCalls' = 0
            /\ UNCHANGED entries
       ELSE IF Memoized(entries)
       THEN /\ ret' = [op |-> "parseEntries", ok |-> TRUE, value |-> entries]
            /\ reads' = 0
            /\ short' = FALSE
            /\ codecCalls' = 0
            /\ UNCHANGED entries
       ELSE IF header.numEntries < 0
       THEN \* Buffer.alloc of a negative size
            /\ ret' = [op |-> "parseEntries", ok |-> FALSE, error |-> "RangeError"]
            /\ reads' = 0
            /\ short' = FALSE
            /\ codecCalls' = 0
            /\ UNCHANGED entries
       ELSE IF ~fdOpen /\ header.numEntries > 0
       THEN \* readData throws
            /\ ret' = [op |-> "parseEntries", ok |-> FALSE, error |-> "EBADF"]
            /\ reads' = 0
            /\ short' = FALSE
            /\ codecCalls' = 0
            /\ UNCHANGED entries
       ELSE LET es == ScsEntryList(FdFile, header)
                listed == ScsListingReads(FdFile, es)
            IN  /\ entries' = [directories |-> createStore(ScsDirectoriesOf(FdFile, header),
                                                           header.salt),
                               files |-> createStore(ScsFilesOf(FdFile, header), header.salt)]
                /\ ret' = [op |-> "parseEntries", ok |-> TRUE, value |-> entries']
                /\ reads' = 1 + Cardinality(listed)
                /\ short' = (\/ IsShort(FdFile, header.entriesOffset,
                                        EntryHeaderV1Size * header.numEntries)
                             \/ \E i \in listed : ScsEntryRead(FdFile, es[i].metadata).short)
                /\ codecCalls' = Cardinality({i \in listed : es[i].metadata.isDataCompressed})
    /\ UNCHANGED <<kind, inp, st, fdOpen, disposeCalled, offset, header, eocdOffset,
                   cdEntries,
                   globalDirectoryTree,
                   fdRefersTo>>

\* read() of an entry obtained from parseEntries()
ScsRead ==
    /\ kind = "scs"
    /\ entries # None
    /\ \E e \in Range(entries.files) \cup Range(entries.directories) :
          IF ~fdOpen /\ e.metadata.size > 0
          THEN /\ ret' = [op |-> "read", ok |-> FALSE, error |-> "EBADF", of |-> e]
               /\ reads' = 0
               /\ short' = FALSE
               /\ codecCalls' = 0
          ELSE LET r == ScsEntryRead(FdFile, e.metadata)
               IN  /\ ret' = [op |-> "read", ok |-> TRUE, value |-> r.value, of |-> e,
                              logged |-> r.logged]
                   /\ reads' = r.reads
                   /\ short' = r.short
                   /\ codecCalls' = r.codec
    /\ UNCHANGED <<kind, inp, st, fdOpen, disposeCalled, offset, header, eocdOffset,
                   cdEntries, entries,
                   globalDirectoryTree,
                   fdRefersTo>>

\* ScsArchiveV1.dispose(): fs.closeSync throws on a descriptor already closed
ScsDispose ==
    /\ kind = "scs"
    /\ st = "ready"
    /\ disposeCalled' = TRUE
    /\ fdOpen' = FALSE
    /\ ret' = [op |-> "dispose", ok |-> fdOpen]
    /\ reads' = 0
    /\ short' = FALSE
    /\ codecCalls' = 0
    /\ UNCHANGED <<kind, inp, st, offset, header, eocdOffset, cdEntries, entries,
                   globalDirectoryTree,
                   fdRefersTo>>

(***************************************************************************)
(* The constructor of one ScsV1 directory entry alone, on a file that is   *)
(* the entry's payload.                                                    *)
(***************************************************************************)
ListingChars == {"*", "a", "CR", "LF"}

InitListing ==
    /\ kind = "listing"
    /\ inp \in [payload : SeqsUpTo(ListingChars, MaxPayload)]
    /\ st = "ready"
    /\ fdOpen = TRUE
    /\ disposeCalled = FALSE
    /\ offset = 0
    /\ header = None
    /\ eocdOffset = -1
    /\ cdEntries = <<>>
    /\ entries = None
    /\ ret = None
    /\ reads = 0
    /\ short = FALSE
    /\ codecCalls = 0
    /\ globalDirectoryTree = EmptyTree
    /\ fdRefersTo = "own"

\* new ScsArchiveDirectoryV1(fd, metadata)
ListingConstruct ==
    /\ kind = "listing"
    /\ ret = None
    /\ LET metadata == [hash |-> [lo |-> 0, hi |-> 0], offset |-> [lo |-> 0, hi |-> 0],
                        size |-> Len(File), isDirectory |-> TRUE, isDataCompressed |-> FALSE]
       IN  /\ ret' = [op |-> "newDirectory", ok |-> TRUE,
                      value |-> ScsArchiveDirectoryV1(File, metadata)]
           /\ reads' = ScsEntryRead(File, metadata).reads
           /\ short' = ScsEntryRead(File, metadata).short
           /\ codecCalls' = ScsEntryRead(File, metadata).codec
    /\ UNCHANGED <<kind, inp, st, fdOpen, disposeCalled, offset, header, eocdOffset,
                   cdEntries, entries,
                   globalDirectoryTree,
                   fdRefersTo>>

NextListing == ListingConstruct

SpecListing == InitListing /\ [][NextListing]_vars

(***************************************************************************)
(* The parser CLI: which files of modsDir are passed to parsing, and in    *)
(* what order.  A file name is a sequence of pieces: the letters "a" and   *)
(* "b", and ".zip", ".scs", ".txt", each standing for its characters.      *)
(***************************************************************************)
MaxListed == 3    \* directory entries of a generated modsDir

DotPieces == {".zip", ".scs", ".txt"}

\* path.extname: from the last '.' of the base name on, '' when there is no
\* '.' or when the last '.' is the first character of the base name
extname(p) ==
    LET name == basename(p)
        dots == {i \in 1..Len(name) : name[i] \in DotPieces}
    IN  IF dots = {} \/ Max(dots) = 1 THEN <<>>
        ELSE SubSeq(name, Max(dots), Len(name))

\* str.endsWith(suffix) for a suffix that is one piece
endsWith(str, suffix) == str # <<>> /\ str[Len(str)] = suffix

\* str.split(sep)[0]: what comes before the first occurrence of sep; the first
\* character when sep is ''; str when sep does not occur
SplitFirst(str, sep) ==
    IF sep = <<>>
    THEN IF str = <<>> THEN <<>>
         ELSE IF str[1] \in DotPieces THEN <<".">> ELSE <<str[1]>>
    ELSE LET at == {i \in 1..(Len(str) - Len(sep) + 1) :
                       SubSeq(str, i, i + Len(sep) - 1) = sep}
         IN  IF at = {} THEN str ELSE SubSeq(str, 1, Min(at) - 1)

\* a variant: the name up to its extension
ModNameOf_UpToExtension(p) ==
    LET name == basename(p) IN SubSeq(name, 1, Len(name) - Len(extname(p)))

\* path.basename(p).split(path.extname(p))[0]
ModNameOf(p) == SplitFirst(basename(p), extname(p))

\* getLoadOrder: the mod of every line that matches, in order, each once; a
\* line is given by whether reg matches it and by what the group captures
RECURSIVE getLoadOrder(_)
getLoadOrder(lines) ==
    IF lines = <<>> THEN <<>>
    ELSE LET mods == getLoadOrder(SubSeq(lines, 1, Len(lines) - 1))
             mod == lines[Len(lines)].mod
         IN  IF lines[Len(lines)].matches /\ mod # <<>> /\ ~includes(mods, mod)
             THEN Append(mods, mod) ELSE mods

\* loadOrder.indexOf(x): 0-based, -1 when absent
indexOf(list, x) ==
    IF includes(list, x) THEN Min({i \in 1..Len(list) : list[i] = x}) - 1 ELSE -1

\* Array.prototype.sort with the comparator key(a) - key(b): stable
RECURSIVE SortByIndex(_, _)
SortByIndex(paths, loadOrder) ==
    IF paths = <<>> THEN <<>>
    ELSE LET sorted == SortByIndex(SubSeq(paths, 1, Len(paths) - 1), loadOrder)
             x == paths[Len(paths)]
             key(q) == indexOf(loadOrder, ModNameOf(q))
             before == {i \in 1..Len(sorted) : key(sorted[i]) <= key(x)}
             k == IF before = {} THEN 0 ELSE Max(before)
         IN  SubSeq(sorted, 1, k) \o <<x>> \o SubSeq(sorted, k + 1, Len(sorted))

\* path.join(modsDir, name)
JoinModsDir(name) == <<"mods", "/">> \o name

\* main: modFilePaths
ModFilePaths(dir, loadOrder) ==
    LET Wanted(e) ==
            /\ e.isFile
            /\ endsWith(e.name, ".scs") \/ endsWith(e.name, ".zip")
            /\ includes(loadOrder, ModNameOf(e.name))
        kept == SelectSeq(dir, Wanted)
    IN  SortByIndex([i \in 1..Len(kept) |-> JoinModsDir(kept[i].name)], loadOrder)

ModFileNames ==
    {<<"a", ".zip">>, <<"b", ".zip">>, <<"a", ".scs">>, <<"b", ".txt">>, <<"b">>,
     <<"a", ".zip", ".zip">>, <<".zip">>}

Dirents ==
    {[name |-> n, isFile |-> TRUE] : n \in ModFileNames}
        \cup {[name |-> <<"b", ".scs">>, isFile |-> FALSE]}

\* fs.readdirSync: every name once
ModsDirs ==
    {d \in SeqsUpTo(Dirents, MaxListed) :
        \A i \in 1..Len(d) : \A j \in 1..Len(d) : i # j => d[i].name # d[j].name}

LogLines ==
    {[matches |-> TRUE, mod |-> m] : m \in {<<"a">>, <<"b">>, <<"a", ".zip">>, <<>>}}
        \cup {[matches |-> FALSE, mod |-> <<>>]}

InitMods ==
    /\ kind = "mods"
    /\ inp \in [dir : ModsDirs, log : SeqsUpTo(LogLines, MaxRecs)]
    /\ st = "ready"
    /\ fdOpen = FALSE
    /\ disposeCalled = FALSE
    /\ offset = 0
    /\ header = None
    /\ eocdOffset = -1
    /\ cdEntries = <<>>
    /\ entries = None
    /\ ret = None
    /\ reads = 0
    /\ short = FALSE
    /\ codecCalls = 0
    /\ globalDirectoryTree = EmptyTree
    /\ fdRefersTo = "own"

\* main, lines 88 to 108
ModsSelect ==
    /\ kind = "mods"
    /\ ret = None
    /\ ret' = [op |-> "modFilePaths", ok |-> TRUE,
               value |-> ModFilePaths(inp.dir, getLoadOrder(inp.log))]
    /\ UNCHANGED <<kind, inp, st, fdOpen, disposeCalled, offset, header, eocdOffset,
                   cdEntries, entries, reads, short, codecCalls, globalDirectoryTree,
                   fdRefersTo>>

NextMods == ModsSelect

SpecMods == InitMods /\ [][NextMods]_vars

(***************************************************************************)
(* The parser CLI: a collection is written to its output file in chunks.   *)
(* A string is a sequence of characters; the blanks JSON.stringify puts    *)
(* between the items count as one character, and so does an element, the   *)
(* i-th element of the collection being Elem(i).  For this kind of         *)
(* behaviour inp.length is collection.length, offset is the loop variable  *)
(* start, ret.value is what ws.write has been given so far and st tells    *)
(* whether ws.end() has been called.                                       *)
(***************************************************************************)
ChunkSize == 32768

MaxSmall == 40    \* the longest of the short collections generated

Chr1(c) == [c |-> c, i |-> 0]

Elem(i) == [c |-> "element", i |-> i]

\* collection.slice(start, end)
slice(length, start, end) == [k \in 1..(Min2(end, length) - start) |-> Elem(start + k)]

\* JSON.stringify(items, null, 2)
stringify(items) ==
    IF items = <<>> THEN <<Chr1("["), Chr1("]")>>
    ELSE LET n == Len(items)
         IN  [k \in 1..(3 * n + 2) |->
                 IF k = 1 THEN Chr1("[")
                 ELSE IF k = 3 * n + 2 THEN Chr1("]")
                 ELSE LET i == ((k - 2) \div 3) + 1
                          r == (k - 2) % 3
                      IN  IF r = 0 THEN Chr1(" ")
                          ELSE IF r = 1 THEN items[i]
                          ELSE IF i < n THEN Chr1(",") ELSE Chr1(" ")]

\* a variant: nothing is cut off and no comma is put between the chunks
ChunkString_Whole(length, start) == stringify(slice(length, start, start + ChunkSize))

\* the string the loop body writes for the chunk that begins at start
ChunkString(length, start) ==
    LET str0 == stringify(slice(length, start, start + ChunkSize))
        str1 == IF start # 0 THEN <<Chr1(",")>> \o SubSeq(str0, 2, Len(str0)) ELSE str0
    IN  IF start + ChunkSize < length THEN SubSeq(str1, 1, Len(str1) - 1) ELSE str1

CollectionLengths ==
    (0..MaxSmall) \cup {ChunkSize - 1, ChunkSize, ChunkSize + 1, 2 * ChunkSize,
                        2 * ChunkSize + 1}

InitWrite ==
    /\ kind = "write"
    /\ inp \in [length : CollectionLengths]
    /\ st = "open"
    /\ fdOpen = TRUE
    /\ disposeCalled = FALSE
    /\ offset = 0
    /\ header = None
    /\ eocdOffset = -1
    /\ cdEntries = <<>>
    /\ entries = None
    /\ ret = [op |-> "write", ok |-> TRUE, value |-> <<>>]
    /\ reads = 0
    /\ short = FALSE
    /\ codecCalls = 0
    /\ globalDirectoryTree = EmptyTree
    /\ fdRefersTo = "own"

\* one iteration of "for (let start = 0; start < collection.length; ...)"
WriteChunk ==
    /\ kind = "write"
    /\ st = "open"
    /\ offset < inp.length
    /\ ret' = [ret EXCEPT !.value = @ \o ChunkString(inp.length, offset)]
    /\ offset' = offset + ChunkSize
    /\ UNCHANGED <<kind, inp, st, fdOpen, disposeCalled, header, eocdOffset, cdEntries,
                   entries, reads, short, codecCalls, globalDirectoryTree, fdRefersTo>>

\* the loop is over: ws.end()
WriteEnd ==
    /\ kind = "write"
    /\ st = "open"
    /\ ~(offset < inp.length)
    /\ st' = "ended"
    /\ fdOpen' = FALSE
    /\ UNCHANGED <<kind, inp, disposeCalled, offset, header, eocdOffset, cdEntries,
                   entries, ret, reads, short, codecCalls, globalDirectoryTree, fdRefersTo>>

NextWrite == WriteChunk \/ WriteEnd

SpecWrite == InitWrite /\ [][NextWrite]_vars

(***************************************************************************)
(* decryptedSii.  A Buffer is its sequence of bytes; the string            *)
(* buffer.toString('utf8', ...) makes of some bytes is utf8 of them.       *)
(***************************************************************************)
MaxBuffer == 6    \* bytes of a generated buffer

utf8(bytes) == <<"utf8", bytes>>

Magic3nK == <<51, 110, 75>>    \* '3nK'

\* a ^ b on values below 2^bits
RECURSIVE Xor(_, _, _)
Xor(a, b, bits) ==
    IF bits = 0 THEN 0
    ELSE ((a + b) % 2) + 2 * Xor(a \div 2, b \div 2, bits - 1)

\* the byte stored by buffer[i] = (((key << 2) ^ (key ^ 0xff)) << 3) ^ key ^ byte:
\* the low 8 bits of the expression, which depend on the low 8 bits of key only
DecryptByte(key, byte) ==
    LET k == key % 256
        inner == Xor((k * 4) % 256, Xor(k, 255, 8), 8)
    IN  Xor(Xor((inner * 8) % 256, k, 8), byte, 8)

\* decryptedSii(buffer): what it returns or throws, and the buffer afterwards
decryptedSii(buffer) ==
    IF Len(buffer) >= 3 /\ SubSeq(buffer, 1, 3) = Magic3nK
    THEN IF Len(buffer) < 5
         THEN [ok |-> TRUE, value |-> utf8(<<>>), buffer |-> buffer]
         ELSE IF Len(buffer) < 6
         THEN \* buffer.readUint8(5): the offset is out of range
              [ok |-> FALSE, error |-> "ERR_OUT_OF_RANGE", buffer |-> buffer]
         ELSE LET key == buffer[6]
                  after == [i \in 1..Len(buffer) |->
                               IF i <= 6 THEN buffer[i]
                               ELSE DecryptByte(key + (i - 7), buffer[i])]
              IN  [ok |-> TRUE, value |-> utf8(SubSeq(after, 7, Len(after))),
                   buffer |-> after]
    ELSE [ok |-> TRUE, value |-> utf8(buffer), buffer |-> buffer]

SiiBytes == {51, 110, 75, 255}

InitSii ==
    /\ kind = "sii"
    /\ inp \in [buffer : SeqsUpTo(SiiBytes, MaxBuffer) \cup {Magic3nK \o <<0, 0, 7, 1, 2>>}]
    /\ st = "ready"
    /\ fdOpen = FALSE
    /\ disposeCalled = FALSE
    /\ offset = 0
    /\ header = None
    /\ eocdOffset = -1
    /\ cdEntries = <<>>
    /\ entries = None
    /\ ret = None
    /\ reads = 0
    /\ short = FALSE
    /\ codecCalls = 0
    /\ globalDirectoryTree = EmptyTree
    /\ fdRefersTo = "own"

SiiDecrypt ==
    /\ kind = "sii"
    /\ ret = None
    /\ ret' = [op |-> "decryptedSii"] @@ decryptedSii(inp.buffer)
    /\ UNCHANGED <<kind, inp, st, fdOpen, disposeCalled, offset, header, eocdOffset,
                   cdEntries, entries, reads, short, codecCalls, globalDirectoryTree,
                   fdRefersTo>>

NextSii == SiiDecrypt

SpecSii == InitSii /\ [][NextSii]_vars

(***************************************************************************)
(* Paths as the claims speak of them: segments, ancestors, parent.         *)
(***************************************************************************)
\* the non-empty pieces of p between '/' characters
RECURSIVE Segments(_)
Segments(p) ==
    IF p = <<>> THEN <<>>
    ELSE IF Head(p) = "/" THEN Segments(Tail(p))
    ELSE LET stop == IF includes(p, "/")
                     THEN (CHOOSE i \in 1..Len(p) :
                              p[i] = "/" /\ \A j \in 1..(i - 1) : p[j] # "/") - 1
                     ELSE Len(p)
         IN  <<SubSeq(p, 1, stop)>> \o Segments(SubSeq(p, stop + 1, Len(p)))

RECURSIVE JoinPath(_)
JoinPath(segs) ==
    IF segs = <<>> THEN <<>>
    ELSE IF Len(segs) = 1 THEN segs[1]
    ELSE segs[1] \o <<"/">> \o JoinPath(Tail(segs))

\* the proper ancestors of p, the root '' among them
AncestorPaths(p) ==
    {JoinPath(SubSeq(Segments(p), 1, k)) : k \in 0..(Len(Segments(p)) - 1)}

ParentPath(p) == JoinPath(SubSeq(Segments(p), 1, Len(Segments(p)) - 1))

LastSegment(p) == Segments(p)[Len(Segments(p))]

\* the store holds a Directory entry for path p
HasDirectory(store, p) ==
    /\ city64(p) \in DOMAIN store
    /\ store[city64(p)].type = "directory"
    /\ store[city64(p)].entry.fileName = p

Parsed == kind \in {"index", "zip"} /\ entries # None

(***************************************************************************)
(* C1: on a ZipArchive or ScsArchiveV1 handle whose parseEntries() has     *)
(* succeeded once, every later parseEntries() call succeeds, returns the   *)
(* memoized Entries value, leaves the memo as it is, reads nothing from    *)
(* the file, calls no codec and leaves the reader cursor where it was.     *)
(***************************************************************************)
C1_ParseEntriesMemoized ==
    [][((ZipParseEntries \/ ScsParseEntries) /\ entries # None) =>
            /\ ret'.ok
            /\ ret'.value = entries
            /\ entries' = entries
            /\ reads' = 0
            /\ codecCalls' = 0
            /\ offset' = offset]_vars

\* a repeated parseEntries() on a ZIP handle with records, after a read() has
\* moved the cursor away from the end of the central directory
C1_Witness ==
    /\ kind = "zip"
    /\ ret # None /\ ret.op = "parseEntries" /\ ret.ok
    /\ Len(cdEntries) > 0
    /\ reads = 0
    /\ offset # header.centralDirectoryOffset + header.centralDirectorySize

(***************************************************************************)
(* C2: after ZipArchive.parseEntries(), for every scanned record whose     *)
(* path (as indexed) has two or more segments, the directories store holds *)
(* a Directory entry for every proper ancestor path of it and for the root *)
(* '', whether or not the central directory has records for them.          *)
(***************************************************************************)
C2_AncestorsIndexed ==
    Parsed =>
        \A i \in 1..Len(cdEntries) :
            Len(Segments(cdEntries[i].fileName)) >= 2 =>
                \A a \in AncestorPaths(cdEntries[i].fileName) :
                    HasDirectory(entries.directories, a)

\* a three-segment record was indexed and no record names any of its ancestors
C2_Witness ==
    /\ Parsed
    /\ \E i \in 1..Len(cdEntries) :
          /\ Len(Segments(cdEntries[i].fileName)) = 3
          /\ \A j \in 1..Len(cdEntries) :
                JoinPath(Segments(cdEntries[j].fileName))
                    \notin AncestorPaths(cdEntries[i].fileName)

(***************************************************************************)
(* C3: on every archive image the constructor accepts, the offset          *)
(* FindEndHeaderOffset returns is the offset of the image's end-of-        *)
(* central-directory record, whatever bytes the trailing comment holds.    *)
(***************************************************************************)
C3_FindsTrueEocd ==
    (kind = "zip" /\ st = "ready" /\ inp.cut = "all") =>
        eocdOffset = TrueEocdOffset(inp)

(***************************************************************************)
(* C4: after ZipArchive.parseEntries(), every scanned record of            *)
(* uncompressed size 0 whose name ends in '/' has a Directory entry in the *)
(* directories store, under its name without the trailing '/'.             *)
(***************************************************************************)
C4_MarkerIndexed ==
    Parsed =>
        \A i \in 1..Len(cdEntries) :
            LET name == cdEntries[i].fileName
            IN  (cdEntries[i].uncompressedSize = 0 /\ name # <<>>
                    /\ name[Len(name)] = "/") =>
                    HasDirectory(entries.directories, JoinPath(Segments(name)))

IsTerminator(c) == c \in {"CR", "LF"}

StartsLine(p, i) == ~IsTerminator(p[i]) /\ (i = 1 \/ IsTerminator(p[i - 1]))

LineAt(p, i) ==
    SubSeq(p, i, CHOOSE j \in i..Len(p) :
                    /\ \A k \in i..j : ~IsTerminator(p[k])
                    /\ (j = Len(p) \/ IsTerminator(p[j + 1])))

RECURSIVE LinesFrom(_, _)
LinesFrom(p, i) ==
    IF i > Len(p) THEN <<>>
    ELSE IF StartsLine(p, i) THEN <<LineAt(p, i)>> \o LinesFrom(p, i + 1)
    ELSE LinesFrom(p, i + 1)

Starred(line) == line[1] = "*"

Plain(line) == line[1] # "*"

(***************************************************************************)
(* C6: an ScsV1 directory entry built from a payload lists, in payload     *)
(* order, every non-blank line that starts with '*' as a subdirectory      *)
(* (without the '*') and every other non-blank line as a file; blank lines *)
(* (between CR and LF, after the final terminator) are listed nowhere.     *)
(***************************************************************************)
C6_ListingParsed ==
    (kind = "listing" /\ ret # None) =>
        LET lines == LinesFrom(inp.payload, 1)
            starred == SelectSeq(lines, Starred)
        IN  /\ ret.value.subdirectories = [i \in 1..Len(starred) |-> Tail(starred[i])]
            /\ ret.value.files = SelectSeq(lines, Plain)

\* a payload with a subdirectory line, a file line, a CR LF pair and a final
\* terminator has been parsed
C6_Witness ==
    /\ kind = "listing" /\ ret # None
    /\ Len(ret.value.subdirectories) > 0
    /\ Len(ret.value.files) > 0
    /\ IsTerminator(inp.payload[Len(inp.payload)])
    /\ \E i \in 1..(Len(inp.payload) - 1) :
          inp.payload[i] = "CR" /\ inp.payload[i + 1] = "LF"

(***************************************************************************)
(* C7: on a constructed ScsArchiveV1 handle isValid() is true exactly when *)
(* the file's magic is 'SCS#', its hash-method tag 'CITY' and its version  *)
(* 1; when it is false, a parseEntries() call fails with the precondition  *)
(* error and reads nothing, and the memoized entries are never set.        *)
(***************************************************************************)
C7_ValidityExact ==
    (kind = "scs" /\ st = "ready") =>
        LET wellFormed == /\ inp.magic = <<83, 67, 83, 35>>
                          /\ inp.hashMethod = <<67, 73, 84, 89>>
                          /\ inp.version = 1
        IN  /\ ScsIsValid(header) <=> wellFormed
            /\ ~wellFormed =>
                  /\ entries = None
                  /\ (ret.op = "parseEntries") =>
                        (~ret.ok /\ ret.error = "checkState" /\ reads = 0)

\* parseEntries() was called on a handle whose file differs from a valid one
\* in the version alone
C7_Witness ==
    /\ kind = "scs" /\ st = "ready"
    /\ inp.magic = <<83, 67, 83, 35>> /\ inp.hashMethod = <<67, 73, 84, 89>>
    /\ inp.version = 2
    /\ Len(inp.ents) > 0
    /\ ret.op = "parseEntries"

(***************************************************************************)
(* C8: no call on a ZIP handle completes a read through the ZIP reader     *)
(* that got fewer bytes from the file than it asked for: no returned       *)
(* buffer is padded.                                                       *)
(***************************************************************************)
C8_NoPaddedRead == kind = "zip" => ~short

(***************************************************************************)
(* C9: in every reachable state of a handle the descriptor is closed if    *)
(* and only if dispose() has been called on the handle.                    *)
(***************************************************************************)
C9_ClosedIffDisposed == fdOpen <=> ~disposeCalled

\* a read() has failed on a handle that was never disposed: the descriptor
\* is still open
C9_Witness ==
    /\ ret # None /\ ret.op = "read" /\ ~ret.ok
    /\ ~disposeCalled
    /\ fdOpen

(***************************************************************************)
(* C10: after ZipArchive.parseEntries(), for every File entry with path p  *)
(* the directories store holds a Directory entry for the parent path of p  *)
(* ('' for a top-level file) whose files list contains the last segment of *)
(* p.                                                                      *)
(***************************************************************************)
C10_FileParentIndexed ==
    Parsed =>
        \A h \in DOMAIN entries.files :
            LET p == entries.files[h].entry.fileName
            IN  /\ HasDirectory(entries.directories, ParentPath(p))
                /\ includes(entries.directories[city64(ParentPath(p))].files,
                            LastSegment(p))

\* a nested file and a top-level file were indexed, no record names the parent
C10_Witness ==
    /\ Parsed
    /\ \E h \in DOMAIN entries.files : Len(Segments(entries.files[h].entry.fileName)) = 1
    /\ \E h \in DOMAIN entries.files :
          /\ Len(Segments(entries.files[h].entry.fileName)) >= 2
          /\ \A j \in 1..Len(cdEntries) :
                JoinPath(Segments(cdEntries[j].fileName))
                    # ParentPath(entries.files[h].entry.fileName)

\* the path an entry object was made for
EntryPath(e) ==
    IF "entryName" \in DOMAIN e.entry THEN e.entry.entryName ELSE e.entry.fileName

AllEntries == Range(entries.files) \cup Range(entries.directories)

(***************************************************************************)
(* C11: in every ZIP variant, after parseEntries() the hash of every entry *)
(* of the stores is city64 of that entry's own path, so two entries of one *)
(* archive with different paths are hashed from different inputs.          *)
(***************************************************************************)
C11_HashOfOwnPath ==
    (kind \in {"index", "zip", "adm"} /\ entries # None) =>
        \A e \in AllEntries : EntryHash(e) = city64(EntryPath(e))

\* the member of the image a File entry of the stores was scanned from
MemberOf(e) ==
    inp.recs[CHOOSE i \in 1..Len(inp.recs) :
                LocalOffset(inp.recs, i) = e.entry.localFileHeaderOffset]

\* the member's stored bytes are one stored block of exactly the declared size
WellDeflated(m) ==
    /\ Len(m.raw) = 5 + m.usize
    /\ m.raw = StoredBlock(SubSeq(m.raw, 6, Len(m.raw)))

\* the two decode failures of read(): the primitive rejects a method-8 entry,
\* or the method is neither 0 nor 8
DecodeFails(e) ==
    \/ e.entry.compressedMethod = MethodDeflate /\ ~WellDeflated(MemberOf(e))
    \/ e.entry.compressedMethod \notin {MethodNone, MethodDeflate}

ScsMemberOf(e) == CHOOSE m \in Range(inp.ents) : m.hash = e.metadata.hash.lo

\* what a zlib stream of one stored block carries
Inflated(m) == SubSeq(m.data, 8, Len(m.data) - 4)

IsZlib(m) == Len(m.data) >= 11 /\ m.data = ZlibStream(Inflated(m))

(***************************************************************************)
(* C13: an ScsV1 entry read() never fails because of a decode failure.  Of *)
(* a zero-size entry it returns an empty buffer without a file read; on an *)
(* open descriptor it returns the stored bytes when the entry is not       *)
(* flagged compressed, the inflated bytes when inflation succeeds, and the *)
(* stored bytes, after logging, when inflation fails.  (On a closed        *)
(* descriptor the read of a non-empty entry fails with the descriptor      *)
(* error.)                                                                 *)
(***************************************************************************)
C13_ScsReadDegrades ==
    (kind = "scs" /\ ret # None /\ ret.op = "read"
        /\ \E m \in Range(inp.ents) : m.hash = ret.of.metadata.hash.lo) =>
        LET m == ScsMemberOf(ret.of)
        IN  IF Len(m.data) = 0
            THEN ret.ok /\ ret.value = <<>> /\ reads = 0 /\ codecCalls = 0
            ELSE IF ~fdOpen
            THEN ~ret.ok /\ ret.error = "EBADF"
            ELSE /\ ret.ok
                 /\ reads = 1
                 /\ ret.value = IF m.isCompressed /\ IsZlib(m) THEN Inflated(m) ELSE m.data
                 /\ ret.logged <=> (m.isCompressed /\ ~IsZlib(m))

\* a read() of an entry flagged compressed whose bytes are no zlib stream has
\* returned them as stored
C13_Witness ==
    /\ kind = "scs" /\ ret # None /\ ret.op = "read" /\ ret.ok
    /\ ret.of.metadata.isDataCompressed
    /\ ret.logged
    /\ ret.value = <<7, 7>>

\* the records the image holds ahead of the first position of its central
\* directory that does not start with the record signature
RecordsBeforeStop(d) ==
    LET n == CASE d.cd = "empty" -> 0
               [] d.cd = "corrupt" /\ Len(d.recs) > 0 -> Len(d.recs) - 1
               [] OTHER -> Len(d.recs)
    IN  [i \in 1..n |-> Record(d.recs[i].name, d.recs[i].usize, Len(d.recs[i].raw),
                               d.recs[i].method, LocalOffset(d.recs, i))]

C15_EocdWindow ==
    (kind = "zip" /\ st # "new") =>
        LET f == File
            n == Len(f)
            w == Min2(EndHeaderSize + MaxCommentLength, n)
            matches == {i \in (n - w)..(n - 4) :
                           f[i + 1] = 80 /\ f[i + 2] = 75 /\ f[i + 3] = 5 /\ f[i + 4] = 6}
        IN  /\ st = "ready" => eocdOffset \in matches
            /\ matches = {} => st = "failed"
            /\ n < EndHeaderSize => st = "failed"
            /\ st = "failed" => (~ret.ok /\ header = None /\ entries = None)

\* construction has failed on a file that holds the signature, one byte ahead
\* of the last 22 + 65535 bytes
C15_Witness ==
    /\ kind = "zip" /\ st = "failed"
    /\ Len(File) = EndHeaderSize + MaxCommentLength + 1
    /\ SubSeq(File, 1, 4) = <<80, 75, 5, 6>>

NoDuplicates(list) ==
    \A i \in 1..Len(list) : \A j \in 1..Len(list) : list[i] = list[j] => i = j

(***************************************************************************)
(* C17: in the directory tree createDirectoryTree builds from a list of    *)
(* records, the same path occurring more than once or not, no node's       *)
(* subdirectories list and no node's files list holds a name twice.        *)
(***************************************************************************)
C17_NoDuplicateChildren ==
    Parsed =>
        LET directoryTree == createDirectoryTree(cdEntries)
        IN  \A k \in 1..Len(directoryTree.keys) :
                /\ NoDuplicates(directoryTree.node[k].subdirectories)
                /\ NoDuplicates(directoryTree.node[k].files)

(***************************************************************************)
(* C18: a ZIP entry read() on an open descriptor makes three reads and     *)
(* takes the payload from localFileHeaderOffset + 30 + n + m, n and m      *)
(* being the name and extra-field lengths of the local header, for exactly *)
(* compressedSize bytes: the cursor ends right after them, a stored entry  *)
(* comes back as the member's stored bytes, and a deflated one as the      *)
(* bytes its stream carries.                                               *)
(***************************************************************************)
C18_PayloadAfterLocalHeader ==
    (kind = "zip" /\ ret # None /\ ret.op = "read" /\ fdOpen /\ ret.of.type = "file") =>
        LET m == MemberOf(ret.of)
            at == ret.of.entry.localFileHeaderOffset
        IN  /\ reads = 3
            /\ ret.of.entry.compressedSize = Len(m.raw)
            /\ offset = at + 30 + Len(m.name) + m.localExtra + Len(m.raw)
            /\ m.method = MethodNone => (ret.ok /\ ret.value = m.raw /\ codecCalls = 0)
            /\ (m.method = MethodDeflate /\ WellDeflated(m)) =>
                  (ret.ok /\ ret.value = SubSeq(m.raw, 6, Len(m.raw)))

\* a stored entry whose local header, not at offset 0, has an extra field the
\* central record does not declare has been read
C18_Witness ==
    /\ kind = "zip" /\ ret # None /\ ret.op = "read" /\ ret.ok /\ fdOpen
    /\ ret.of.type = "file"
    /\ ret.of.entry.compressedMethod = MethodNone
    /\ ret.of.entry.localFileHeaderOffset > 0
    /\ ret.of.entry.extraFieldLength = 0
    /\ MemberOf(ret.of).localExtra > 0
    /\ ret.value = <<98, 97>>

\* t is name without its first path segment and the '/' after it
LosesFirstSegment(name, t) ==
    \E k \in 1..Len(name) :
        /\ name[k] = "/"
        /\ \A j \in 1..(k - 1) : name[j] # "/"
        /\ t = SubSeq(name, k + 1, Len(name))

\* the archive path matches one of the two patterns of the constructor
PathAsksTrimming(path) ==
    \/ "dlcsupport" \in Range(path)
    \/ \E i \in 1..Len(path) : \E j \in (i + 1)..Len(path) :
          path[i] = "PL_Rebuilding" /\ path[j] = "def"

(***************************************************************************)
(* C19: root trimming is decided by the archive path alone.  When the path *)
(* matches, every record name containing '/' is indexed without its first  *)
(* path segment and every other name as it is; when it does not match,     *)
(* every name is indexed as it is.  Nothing else of a record changes, and  *)
(* the tree, the entries and their hashes are built from the indexed names.*)
(***************************************************************************)
C19_TrimmingByArchivePath ==
    (kind = "index" /\ entries # None) =>
        /\ Len(cdEntries) = Len(inp.recs)
        /\ \A i \in 1..Len(inp.recs) :
              LET name == inp.recs[i].fileName
                  indexed == cdEntries[i].fileName
              IN  /\ IF PathAsksTrimming(inp.path) /\ includes(name, "/")
                     THEN LosesFirstSegment(name, indexed)
                     ELSE indexed = name
                  /\ cdEntries[i] = [inp.recs[i] EXCEPT !.fileName = indexed]
        /\ entries = BuildEntries(cdEntries)
        /\ \A e \in AllEntries :
              /\ EntryHash(e) = city64(e.entry.fileName)
              /\ e.type = "file" => \E i \in 1..Len(cdEntries) : e.entry = cdEntries[i]

\* an archive whose path matches was indexed from a three-segment name, which
\* lost its first segment, and a one-segment name, which was kept
C19_Witness ==
    /\ kind = "index" /\ entries # None
    /\ PathAsksTrimming(inp.path)
    /\ \E i \in 1..Len(inp.recs) :
          /\ Len(Segments(inp.recs[i].fileName)) = 3
          /\ Len(Segments(cdEntries[i].fileName)) = 2
          /\ inp.recs[i].uncompressedSize > 0
    /\ \E i \in 1..Len(inp.recs) :
          /\ ~includes(inp.recs[i].fileName, "/")
          /\ cdEntries[i].fileName = inp.recs[i].fileName

\* the node of path p can be reached from the node of '' by following the
\* subdirectory names of the nodes on the way
RECURSIVE ReachableFromRoot(_, _)
ReachableFromRoot(map, p) ==
    /\ TreeHas(map, p)
    /\ p # <<>> =>
          /\ ReachableFromRoot(map, ParentPath(p))
          /\ includes(TreeGet(map, ParentPath(p)).subdirectories, LastSegment(p))

C21_HandlesIndependent ==
    kind = "admpair" =>
        \A h \in Handles :
            entries[h] # None => entries[h] = AdmBuildEntries(inp.recs[h])

\* both handles are parsed, the first one first: the module-level tree is now
\* the other archive's, and the first handle has a directory with children
C21_Witness ==
    /\ kind = "admpair"
    /\ entries[1] # None /\ entries[2] # None
    /\ globalDirectoryTree = AdmCreateDirectoryTree(inp.recs[2])
    /\ globalDirectoryTree # AdmCreateDirectoryTree(inp.recs[1])
    /\ inp.recs[2] # <<>>
    /\ \E d \in Range(entries[1].directories) : d.subdirectories # <<>>

\* what a caller sees of a read(): the bytes, or the error
Outcome(r) == IF r.ok THEN [ok |-> TRUE, value |-> r.value] ELSE [ok |-> FALSE, error |-> r.error]

\* the places the cursor of a parsed handle can be at: where the parse left
\* it, and where the read of any entry leaves it
CursorPlaces ==
    {0, offset}
        \cup {ZipEntryRead(File, 0, e.entry).offset : e \in AllEntries}

(***************************************************************************)
(* C22: on an open ZIP handle every read() of an entry returns what the    *)
(* same read() returns from any other place the cursor can be at, that of  *)
(* a handle that has only been parsed included: the cursor an earlier read *)
(* or the parse left does not show in the result.                          *)
(***************************************************************************)
C22_ReadIgnoresCursor ==
    [][(kind = "zip" /\ fdOpen /\ ret'.op = "read") =>
            \A c \in CursorPlaces :
                Outcome(ret') = Outcome(ZipEntryRead(File, c, ret'.of.entry))]_vars

\* an entry that is not the last one of a two-member archive has been read,
\* the two members holding different bytes
C22_Witness ==
    /\ kind = "zip" /\ fdOpen /\ ret # None /\ ret.op = "read" /\ ret.ok
    /\ Len(cdEntries) = 2
    /\ ret.of.entry = cdEntries[1]
    /\ cdEntries[2].uncompressedSize > 0
    /\ Outcome(ZipEntryRead(File, 0, cdEntries[2])) # Outcome(ret)
    /\ offset # header.centralDirectoryOffset

\* the records the entry table of the generated image holds, and after them
\* those the header declares beyond the end of the file, which read as zeros
ScsRecordsOf(d) ==
    [k \in 1..(Len(d.ents) + d.extra) |->
        IF k <= Len(d.ents)
        THEN [hash |-> [lo |-> d.ents[k].hash, hi |-> 0], isDirectory |-> d.ents[k].isDirectory]
        ELSE [hash |-> [lo |-> 0, hi |-> 0], isDirectory |-> FALSE]]

HashesOf(es) == [i \in 1..Len(es) |-> EntryHash(es[i])]

StoredHashes(rs) == [i \in 1..Len(rs) |-> rs[i].hash]

RecordIsDirectory(r) == r.isDirectory

RecordIsFile(r) == ~r.isDirectory

(***************************************************************************)
(* C23: after a successful ScsArchiveV1.parseEntries() the arrays the      *)
(* entries were pushed onto hold, in table order, one entry per record of  *)
(* the numEntries records at entriesOffset: the directories array the      *)
(* records whose isDirectory flag is set, the files array the others, each *)
(* entry with its record's hash; together they hold numEntries entries,    *)
(* and the two stores of the result are made from these arrays.            *)
(***************************************************************************)
C23_OneEntryPerRecord ==
    (kind = "scs" /\ entries # None) =>
        LET directories == ScsDirectoriesOf(File, header)
            files == ScsFilesOf(File, header)
            records == ScsRecordsOf(inp)
        IN  /\ header.numEntries = Len(records)
            /\ header.entriesOffset = Len(File) - EntryHeaderV1Size * Len(inp.ents)
            /\ Len(directories) + Len(files) = header.numEntries
            /\ HashesOf(directories) = StoredHashes(SelectSeq(records, RecordIsDirectory))
            /\ HashesOf(files) = StoredHashes(SelectSeq(records, RecordIsFile))
            /\ \A i \in 1..Len(directories) : directories[i].type = "directory"
            /\ \A i \in 1..Len(files) : files[i].type = "file"
            /\ DOMAIN entries.directories = Range(HashesOf(directories))
            /\ DOMAIN entries.files = Range(HashesOf(files))
            /\ \A e \in AllEntries :
                  \E i \in 1..Len(records) :
                      /\ records[i].hash = EntryHash(e)
                      /\ records[i].isDirectory = (e.type = "directory")

\* a table with a directory record and a file record, in this order, was parsed
C23_Witness ==
    /\ kind = "scs" /\ entries # None
    /\ Len(inp.ents) = 2 /\ inp.extra = 0
    /\ inp.ents[1].isDirectory /\ ~inp.ents[2].isDirectory
    /\ Cardinality(DOMAIN entries.directories) = 1
    /\ Cardinality(DOMAIN entries.files) = 1

\* the bytes a scanned record takes in the central directory
RecordSpan(rec) == 46 + rec.fileNameLength + rec.extraFieldLength + rec.fileCommentLength

\* where the k-th record of recs starts when the first starts at from
RECURSIVE RecordStart(_, _, _)
RecordStart(recs, from, k) ==
    IF k = 1 THEN from ELSE RecordStart(recs, from, k - 1) + RecordSpan(recs[k - 1])

(***************************************************************************)
(* C24: the central-directory scan of a first parseEntries() ends, and it  *)
(* ends in one of two ways.  The records it took lie one after the other   *)
(* from centralDirectoryOffset on, each at least 46 bytes long and each    *)
(* starting before centralDirectoryOffset + centralDirectorySize; the      *)
(* cursor is left either at the end of the last record, at or beyond that  *)
(* bound, or 4 bytes into a position before the bound whose signature is   *)
(* not that of a record.  It made five reads per record and one more when  *)
(* it stopped at a signature.                                              *)
(***************************************************************************)
C24_ScanTerminates ==
    [][(kind = "zip" /\ fdOpen /\ entries = None /\ entries' # None) =>
            LET from == header.centralDirectoryOffset
                end == from + header.centralDirectorySize
                n == Len(cdEntries')
                stop == RecordStart(cdEntries', from, n + 1)
            IN  /\ \A k \in 1..n :
                      /\ RecordStart(cdEntries', from, k) < end
                      /\ RecordStart(cdEntries', from, k + 1)
                            >= RecordStart(cdEntries', from, k) + 46
                      /\ readUInt32LE(ReadAt(File, RecordStart(cdEntries', from, k), 4), 0)
                            = CentralDirectoryFileHeaderSig
                /\ 46 * n <= header.centralDirectorySize + 45
                /\ \/ stop >= end /\ offset' = stop /\ reads' = 5 * n
                   \/ /\ stop < end /\ offset' = stop + 4 /\ reads' = 5 * n + 1
                      /\ readUInt32LE(ReadAt(File, stop, 4), 0)
                            # CentralDirectoryFileHeaderSig]_vars

\* a scan of two records has ended because the span was consumed
C24_Witness ==
    /\ kind = "zip" /\ entries # None /\ ret.op = "parseEntries"
    /\ Len(cdEntries) = 2
    /\ reads = 10
    /\ offset = header.centralDirectoryOffset + header.centralDirectorySize
    /\ Len(File) > offset

\* a scan has ended at a signature, before the declared span was consumed
C24_WitnessStopped ==
    /\ kind = "zip" /\ entries # None /\ ret.op = "parseEntries"
    /\ reads = 5 * Len(cdEntries) + 1
    /\ offset < header.centralDirectoryOffset + header.centralDirectorySize

(***************************************************************************)
(* C25: the descriptor the path-taking ZipArchive constructor opened is    *)
(* open only while the caller holds the ZipArchive object whose dispose()  *)
(* closes it: it is not open after the constructor has thrown.             *)
(***************************************************************************)
C25_FailedOpenReleased ==
    (kind = "zipByPath" /\ fdOpen) => st = "ready"

\* the file name without its extension
NameWithoutExtension(name) ==
    IF Len(name) > 1 /\ name[Len(name)] \in DotPieces
    THEN SubSeq(name, 1, Len(name) - 1)
    ELSE name

\* the position in the load order of the name of the file at path p
PositionOf(p, loadOrder) ==
    Min({i \in 1..Len(loadOrder) : loadOrder[i] = NameWithoutExtension(basename(p))})

(***************************************************************************)
(* C26: the mod archives passed to parsing are the paths in modsDir of     *)
(* exactly the regular files ending in .scs or .zip whose file name        *)
(* without its extension is in the load order, each once, in ascending     *)
(* position of that name in the load order.                                *)
(***************************************************************************)
C26_ModsByLoadOrder ==
    (kind = "mods" /\ ret # None) =>
        LET loadOrder == getLoadOrder(inp.log)
            paths == ret.value
            wanted == {e \in Range(inp.dir) :
                          /\ e.isFile
                          /\ e.name[Len(e.name)] \in {".scs", ".zip"}
                          /\ includes(loadOrder, NameWithoutExtension(e.name))}
        IN  /\ Range(paths) = {JoinModsDir(e.name) : e \in wanted}
            /\ Len(paths) = Cardinality(wanted)
            /\ \A i \in 1..Len(paths) : \A j \in 1..Len(paths) :
                  i < j => PositionOf(paths[i], loadOrder) <= PositionOf(paths[j], loadOrder)

(***************************************************************************)
(* C27: a read() made on an entry after dispose() of its handle returns no *)
(* bytes, also when the descriptor number has since been given to another  *)
(* archive.                                                                *)
(***************************************************************************)
C27_NoReadAfterDispose ==
    (disposeCalled /\ ret # None /\ ret.op = "read") => (ret.ok => ret.value = <<>>)

\* str is a JSON array text whose elements are Elem(1) .. Elem(n) in this order
IsArrayOf(str, n) ==
    LET NotBlank(c) == c # Chr1(" ")
        t == SelectSeq(str, NotBlank)
    IN  IF n = 0 THEN t = <<Chr1("["), Chr1("]")>>
        ELSE /\ Len(t) = 2 * n + 1
             /\ t[1] = Chr1("[")
             /\ t[2 * n + 1] = Chr1("]")
             /\ \A i \in 1..n : t[2 * i] = Elem(i)
             /\ \A i \in 1..(n - 1) : t[2 * i + 1] = Chr1(",")

(***************************************************************************)
(* C28: once the stream of a collection is ended, what was written to it   *)
(* is one JSON array holding the collection's elements in order, each      *)
(* once, whatever the length of the collection.                            *)
(***************************************************************************)
C28_ChunksFormOneArray ==
    (kind = "write" /\ st = "ended") => IsArrayOf(ret.value, inp.length)

\* the same for the collections that are not empty
C28_NonEmptyFormOneArray ==
    (kind = "write" /\ st = "ended" /\ inp.length > 0) => IsArrayOf(ret.value, inp.length)

(***************************************************************************)
(* C29: decryptedSii returns a string for every buffer: the empty string   *)
(* for a buffer of 3, 4 or 5 bytes that starts with '3nK', and the text of *)
(* the buffer, whose bytes it leaves as they are, for a buffer that does   *)
(* not start with '3nK'.                                                   *)
(***************************************************************************)
C29_DecryptedSiiTotal ==
    (kind = "sii" /\ ret # None) =>
        LET buffer == inp.buffer
            encrypted == Len(buffer) >= 3 /\ SubSeq(buffer, 1, 3) = Magic3nK
        IN  /\ ret.ok
            /\ (encrypted /\ Len(buffer) <= 5) => ret.value = utf8(<<>>)
            /\ ~encrypted => (ret.value = utf8(buffer) /\ ret.buffer = buffer)

\* the same without the buffers of exactly 5 bytes that start with '3nK'
C29_ExceptLengthFive ==
    (kind = "sii" /\ ret # None
        /\ ~(Len(inp.buffer) = 5 /\ SubSeq(inp.buffer, 1, 3) = Magic3nK)) =>
        LET buffer == inp.buffer
            encrypted == Len(buffer) >= 3 /\ SubSeq(buffer, 1, 3) = Magic3nK
        IN  /\ ret.ok
            /\ (encrypted /\ Len(buffer) <= 5) => ret.value = utf8(<<>>)
            /\ ~encrypted => (ret.value = utf8(buffer) /\ ret.buffer = buffer)

(***************************************************************************)
(* The archive handles.                                                    *)
(***************************************************************************)
Init == InitZip \/ InitScs

Next ==
    \/ ZipConstruct
    \/ ZipParseEntries
    \/ ZipRead
    \/ ZipDispose
    \/ ScsConstruct
    \/ ScsParseEntries
    \/ ScsRead
    \/ ScsDispose

Spec == Init /\ [][Next]_vars

(***************************************************************************)
(* The same handles in a process that goes on opening archives: once the   *)
(* handle's descriptor is closed, fs.openSync of another archive returns   *)
(* the lowest free descriptor number, which can be the one the handle and  *)
(* its entries still hold.                                                 *)
(***************************************************************************)
ReuseInputs ==
    [recs : {<<>>} \cup {<<m>> : m \in ZipMembers}, cd : {"exact"},
     comment : {[bytes |-> <<>>, declared |-> 0]},
     path : {<<"mod/", "promods", ".zip">>}, cut : {"all"}]

ScsReuseInputs ==
    [magic : {MagicSCS}, version : {1}, hashMethod : {HashMethodCITY}, salt : {0},
     ents : SeqsUpTo(ScsMembers, 1), extra : {0}]

InitReuse ==
    /\ kind \in {"zip", "scs"}
    /\ inp \in IF kind = "zip" THEN ReuseInputs ELSE ScsReuseInputs
    /\ st = "new"
    /\ fdOpen = TRUE
    /\ disposeCalled = FALSE
    /\ offset = 0
    /\ header = None
    /\ eocdOffset = -1
    /\ cdEntries = <<>>
    /\ entries = None
    /\ ret = None
    /\ reads = 0
    /\ short = FALSE
    /\ codecCalls = 0
    /\ globalDirectoryTree = EmptyTree
    /\ fdRefersTo = "own"

\* the caller, done with this archive (parsed and disposed), opens another
\* one and gets the number dispose() freed
OpenOther ==
    /\ entries # None
    /\ disposeCalled
    /\ ~fdOpen
    /\ fdOpen' = TRUE
    /\ fdRefersTo' = "other"
    /\ UNCHANGED <<kind, inp, st, disposeCalled, offset, header, eocdOffset, cdEntries,
                   entries, ret, reads, short, codecCalls, globalDirectoryTree>>

NextReuse == Next \/ OpenOther

SpecReuse == InitReuse /\ [][NextReuse]_vars

=============================================================================
